---- MODULE Spec2Model ----
(***************************************************************************)
(* Text chunking of the resume analyzer: the worker chunker                *)
(* (DocumentWorkerProcessor.splitTextIntoChunks), the server chunker       *)
(* (splitTextIntoChunks of the backend) and the main-thread fallback       *)
(* (OptimizedDocumentProcessor.splitTextAsyncChunks).                      *)
(*                                                                         *)
(* A text is a sequence of one-character strings.  Positions are 0-based   *)
(* as in JavaScript: the character at position i is text[i + 1].           *)
(***************************************************************************)
EXTENDS Integers, Sequences, FiniteSets, TLC

-----------------------------------------------------------------------------
(* Bounds of the model *)

\* longest text of the exhaustive family
MaxLen == 4
\* most repetitions of a two-character pattern in the periodic family
MaxRepeat == 13
\* largest chunkSize tried
MaxChunk == 3
\* largest overlap tried
MaxOverlap == 3

\* characters of the exhaustive family: a letter, the space, two terminators
Chars == {"a", " ", ".", "?"}

\* characters of the periodic family
PatternChars == {"a", " ", "!"}

Max(a, b) == IF a >= b THEN a ELSE b

Min(a, b) == IF a <= b THEN a ELSE b

Max3(a, b, c) == Max(a, Max(b, c))

RECURSIVE Repeat(_, _)
Repeat(p, n) == IF n = 0 THEN << >> ELSE p \o Repeat(p, n - 1)

ShortTexts == UNION {[1..n -> Chars] : n \in 0..MaxLen}

PeriodicTexts == {Repeat(p, n) : p \in [1..2 -> PatternChars], n \in 1..MaxRepeat}

Texts == ShortTexts \cup PeriodicTexts

MaxTextLen == Max(MaxLen, 2 * MaxRepeat)

\* cap of the iteration counter; the loop never reaches it (IterationCapUnused)
MaxIter == MaxTextLen + 1

ChunkSizes == (-1)..MaxChunk

Overlaps == 0..MaxOverlap

Impls == {"worker", "server", "async"}

-----------------------------------------------------------------------------
(* JavaScript string primitives, as the chunkers use them *)

\* String.prototype.trim strips these from both ends
IsWhitespace(c) == c = " "

\* String.prototype.substring(a, b): NaN-free arguments are clamped to
\* [0, length] and swapped when a > b
Substring(t, a, b) ==
  LET ca == Min(Max(a, 0), Len(t))
      cb == Min(Max(b, 0), Len(t))
      lo == Min(ca, cb)
      hi == Max(ca, cb)
  IN  SubSeq(t, lo + 1, hi)

\* String.prototype.lastIndexOf(ch, from): the last position <= from holding
\* ch, -1 when there is none; from is clamped to [0, length - 1]
RECURSIVE ScanBack(_, _, _)
ScanBack(t, ch, i) ==
  IF i < 0 THEN -1
  ELSE IF t[i + 1] = ch THEN i
  ELSE ScanBack(t, ch, i - 1)

LastIndexOf(t, ch, from) == ScanBack(t, ch, Min(Max(from, 0), Len(t) - 1))

\* the positions (1-based) of t that hold a non-whitespace character
NonWs(t) == {i \in 1..Len(t) : ~IsWhitespace(t[i])}

\* number of leading whitespace characters
LeadingWs(t) ==
  IF NonWs(t) = {} THEN Len(t)
  ELSE (CHOOSE i \in NonWs(t) : \A j \in NonWs(t) : i <= j) - 1

\* number of trailing whitespace characters
TrailingWs(t) ==
  IF NonWs(t) = {} THEN Len(t)
  ELSE Len(t) - (CHOOSE i \in NonWs(t) : \A j \in NonWs(t) : j <= i)

\* String.prototype.trim
Trim(t) ==
  IF NonWs(t) = {} THEN << >>
  ELSE SubSeq(t, LeadingWs(t) + 1, Len(t) - TrailingWs(t))

\* Array.prototype.filter(chunk => chunk.length > 0)
FilterNonEmpty(cs) == SelectSeq(cs, LAMBDA c : Len(c) > 0)

-----------------------------------------------------------------------------
(* One iteration of the chunking loop *)

\* mutant: a boundary exactly at the midpoint is accepted
AtOrPastMidpoint(x, s, size) == 2 * x >= 2 * s + size

\* mutant: a boundary past the first quarter of the window is accepted
PastQuarter(x, s, size) == 4 * x > 4 * s + size

\* x > start + chunkSize * 0.5, in integers
PastMidpoint(x, s, size) == 2 * x > 2 * s + size

\* the end of the window that starts at s
ChooseEnd(t, s, size) ==
  LET cand == s + size
      sentenceEnd == LastIndexOf(t, ".", cand)
      questionEnd == LastIndexOf(t, "?", cand)
      exclamationEnd == LastIndexOf(t, "!", cand)
      lastSentenceEnd == Max3(sentenceEnd, questionEnd, exclamationEnd)
      lastSpace == LastIndexOf(t, " ", cand)
  IN  IF cand < Len(t)
      THEN IF PastMidpoint(lastSentenceEnd, s, size) THEN lastSentenceEnd + 1
           ELSE IF PastMidpoint(lastSpace, s, size) THEN lastSpace
           ELSE cand
      ELSE cand

\* mutant: the next window starts one character after end - overlap
AdvanceSkipsBoundary(s, e, ov) == Max(s + 1, e + 1 - ov)

\* mutant: the floor start + 1 is missing
AdvanceNoFloor(s, e, ov) == e - ov

\* mutant: one character more than overlap is shared
AdvanceOneMore(s, e, ov) == Max(s + 1, e - ov - 1)

\* mutant: the floor is start instead of start + 1
AdvanceMayStall(s, e, ov) == Max(s, e - ov)

\* start = Math.max(start + 1, end - overlap)
Advance(s, e, ov) == Max(s + 1, e - ov)

\* if (!text || text.length <= chunkSize) return [text]
ShortCircuits(i, t, size) == i \in {"worker", "server"} /\ (Len(t) = 0 \/ Len(t) <= size)

\* if (chunks.length % 5 === 0) await ...: only the fallback yields
Yields(i, cs) == i = "async" /\ Len(cs) % 5 = 0

-----------------------------------------------------------------------------
(* State *)

\* parseStructuredContent has not been called: no argument, no result
NoInput == [kind |-> "none"]

NoResult == [type |-> "none"]

\* processFile has not settled
NoOutcome == [by |-> "none", ok |-> FALSE]

\* a processFile call that has not been made
NoCall ==
  [ pc |-> "new", onProgress |-> FALSE, requestId |-> 0, exec |-> "none",
    failure |-> "none", outcome |-> NoOutcome ]

\* a Worker object: live until terminated; test: TEST_WORKER is unanswered;
\* listener: the call whose testHandler is registered, 0 for none; timer: the
\* initialization timeout is pending; owner: the call that created the worker;
\* ready: worker_ready was sent; posted: the requests it has not answered;
\* started: the requests of posted whose first 'progress' it has sent;
\* received: every request that was posted to it, with ready at that time
NewWorker(c) ==
  [ live |-> TRUE, test |-> TRUE, listener |-> c, timer |-> TRUE, owner |-> c,
    ready |-> FALSE, posted |-> {}, started |-> {}, received |-> {} ]

\* processMultipleFiles has not been called
NoBatch == [pc |-> "idle", i |-> 0, results |-> << >>]


VARIABLES
  impl,        \* which chunker runs
  text,        \* argument text
  chunkSize,   \* argument chunkSize
  overlap,     \* argument overlap
  start,       \* the cursor
  chunks,      \* the chunks array; the returned array once pc = "done"
  windows,     \* history: one record [start, end, pushed] per iteration
  iterations,  \* history: number of loop iterations run
  pc,          \* "call", "loop", "yield", "done"
  outcome,     \* "running", "returned" or the name of the error thrown
  input,       \* TextFormatter: the argument of parseStructuredContent
  result,      \* TextFormatter: the value parseStructuredContent returned
  bulletizedLines,  \* TextFormatter: the lines parseStructuredContent classifies
  lineTable,   \* TextFormatter: what its functions make of each line, worked out once
  callArgs,    \* interleaved calls: the arguments of each call
  frames,      \* interleaved calls: the locals start and chunks of each call
  callPc,      \* interleaved calls: "call", "loop", "yield" or "done" for each call
  running,     \* interleaved calls: the call that is on the stack, 0 for none
  returned,    \* interleaved calls: the array each call returned
  worker,           \* this.worker: 0 for null, else the index of a Worker object
  processingQueue,  \* this.processingQueue: the request ids that have an entry
  requestId,        \* this.requestId
  workerObjects,    \* the Worker objects created so far
  callState,        \* the processFile calls
  supported,        \* typeof Worker !== 'undefined'
  files,            \* the files of the calls
  maxConcurrent,    \* options.maxConcurrent, 0 when it is not given
  batchState,       \* the call of processMultipleFiles
  memoryUsageHistory,  \* MemoryManager: the measurements kept, each by its number
  performanceMetrics,  \* MemoryManager: the operations that are being tracked
  monitoringInterval,  \* MemoryManager: TRUE while the interval is set
  memorySupported,     \* performance.memory exists
  measurements         \* history: the number of measurements taken

chunkerVars == <<impl, text, chunkSize, overlap, start, chunks, windows, iterations, pc, outcome>>

formatterVars == <<input, result, bulletizedLines, lineTable>>

reentrantVars == <<callArgs, frames, callPc, running, returned>>

\* parseStructuredContent is not called
FormatterIdle ==
  /\ input = NoInput
  /\ result = NoResult
  /\ bulletizedLines = << >>
  /\ lineTable = << >>

\* no interleaved calls are made
ReentrantIdle ==
  /\ callArgs = << >>
  /\ frames = << >>
  /\ callPc = << >>
  /\ running = 0
  /\ returned = << >>

processorVars ==
  << worker, processingQueue, requestId, workerObjects, callState, supported,
     files, maxConcurrent, batchState >>

\* the processor is not used
ProcessorIdle ==
  /\ worker = 0
  /\ processingQueue = {}
  /\ requestId = 0
  /\ workerObjects = << >>
  /\ callState = << >>
  /\ supported = FALSE
  /\ files = << >>
  /\ maxConcurrent = 0
  /\ batchState = NoBatch

managerVars ==
  << memoryUsageHistory, performanceMetrics, monitoringInterval, memorySupported,
     measurements >>

\* the memory manager is not used
ManagerIdle ==
  /\ memoryUsageHistory = << >>
  /\ performanceMetrics = {}
  /\ monitoringInterval = FALSE
  /\ memorySupported = FALSE
  /\ measurements = 0

\* the state outside one call of a chunker
outsideChunker == <<formatterVars, reentrantVars, processorVars, managerVars>>

\* the state outside the formatter
outsideFormatter == <<chunkerVars, reentrantVars, processorVars, managerVars>>

\* the state outside the interleaved calls
outsideReentrant == <<chunkerVars, formatterVars, processorVars, managerVars>>

\* the state outside the processor
outsideProcessor == <<chunkerVars, formatterVars, reentrantVars, managerVars>>

\* the state outside the memory manager
outsideManager == <<chunkerVars, formatterVars, reentrantVars, processorVars>>

vars == <<chunkerVars, formatterVars, reentrantVars, processorVars, managerVars>>

args == <<impl, text, chunkSize, overlap>>

Init ==
  /\ impl \in Impls
  /\ text \in Texts
  /\ chunkSize \in ChunkSizes
  /\ overlap \in Overlaps
  /\ start = 0
  /\ chunks = << >>
  /\ windows = << >>
  /\ iterations = 0
  /\ pc = "call"
  /\ outcome = "running"
  /\ FormatterIdle
  /\ ReentrantIdle
  /\ ProcessorIdle
  /\ ManagerIdle

\* the early return of the worker and server chunkers
ShortCircuit ==
  /\ pc = "call"
  /\ ShortCircuits(impl, text, chunkSize)
  /\ chunks' = <<text>>
  /\ pc' = "done"
  /\ outcome' = "returned"
  /\ UNCHANGED <<args, start, windows, iterations>>
  /\ UNCHANGED outsideChunker

\* const chunks = []; let start = 0;
Begin ==
  /\ pc = "call"
  /\ ~ShortCircuits(impl, text, chunkSize)
  /\ chunks' = << >>
  /\ start' = 0
  /\ pc' = "loop"
  /\ UNCHANGED <<args, windows, iterations, outcome>>
  /\ UNCHANGED outsideChunker

\* one pass through the body of while (start < text.length)
Iterate ==
  /\ pc = "loop"
  /\ start < Len(text)
  /\ iterations < MaxIter
  /\ LET e == ChooseEnd(text, start, chunkSize)
         chunk == Trim(Substring(text, start, e))
         pushed == chunk # << >>
         cs == IF pushed THEN Append(chunks, chunk) ELSE chunks
     IN  /\ chunks' = cs
         /\ windows' = Append(windows, [start |-> start, end |-> e, pushed |-> pushed])
         /\ start' = Advance(start, e, overlap)
         /\ pc' = IF Yields(impl, cs) THEN "yield" ELSE "loop"
  /\ iterations' = iterations + 1
  /\ UNCHANGED <<args, outcome>>
  /\ UNCHANGED outsideChunker

\* the timer of the fallback's await fires
Resume ==
  /\ pc = "yield"
  /\ pc' = "loop"
  /\ UNCHANGED <<args, start, chunks, windows, iterations, outcome>>
  /\ UNCHANGED outsideChunker

\* the loop is left (while condition or break) and the chunks are returned
Return ==
  /\ pc = "loop"
  /\ start >= Len(text)
  /\ chunks' = FilterNonEmpty(chunks)
  /\ pc' = "done"
  /\ outcome' = "returned"
  /\ UNCHANGED <<args, start, windows, iterations>>
  /\ UNCHANGED outsideChunker

Next == ShortCircuit \/ Begin \/ Iterate \/ Resume \/ Return

\* no chunker is called
ChunkerIdle ==
  /\ impl = "worker"
  /\ text = << >>
  /\ chunkSize = 1
  /\ overlap = 0
  /\ start = 0
  /\ chunks = << >>
  /\ windows = << >>
  /\ iterations = 0
  /\ pc = "idle"
  /\ outcome = "none"

Spec == Init /\ [][Next]_vars

\* Iterate seen through its guard and its counter: it is enabled exactly
\* when Iterate is, and the steps of Next that satisfy it are the Iterate
\* steps
LoopStep ==
  /\ pc = "loop"
  /\ start < Len(text)
  /\ iterations < MaxIter
  /\ iterations' = iterations + 1

\* the JavaScript event loop runs a started call to its end: a pending step
\* of the call is eventually taken
LiveSpec ==
  /\ Init
  /\ [][Next]_vars
  /\ WF_vars(ShortCircuit \/ Begin \/ Resume \/ Return)
  /\ WF_iterations(LoopStep)

TypeOK ==
  /\ impl \in Impls
  /\ chunkSize \in ChunkSizes
  /\ overlap \in Overlaps
  /\ start \in 0..(2 * MaxTextLen + MaxChunk)
  /\ iterations \in 0..MaxIter
  /\ pc \in {"call", "loop", "yield", "done"}
  /\ outcome \in {"running", "returned"}

\* the cap of the iteration counter never stops the loop
IterationCapUnused == (pc = "loop" /\ start < Len(text)) => iterations < MaxIter

-----------------------------------------------------------------------------
(* Vocabulary of the properties *)

\* the contract of chunk: chunkSize > 0 and 0 <= overlap < chunkSize
Valid == chunkSize > 0 /\ overlap >= 0 /\ overlap < chunkSize

Done == pc = "done"

IsTerminator(c) == c \in {".", "?", "!"}

\* the largest element of a set of positions, -1 for the empty set
SetMax(S) == IF S = {} THEN -1 ELSE CHOOSE x \in S : \A y \in S : y <= x

CeilDiv(a, b) == (a + b - 1) \div b

\* the windows whose trimmed text was pushed, in order
PushedWindows == SelectSeq(windows, LAMBDA w : w.pushed)

\* the part [lo, hi) of the text that window w keeps after trimming
SpanOf(w) ==
  LET raw == Substring(text, w.start, w.end)
  IN  [lo |-> w.start + LeadingWs(raw), hi |-> Min(w.end, Len(text)) - TrailingWs(raw)]

\* the source span of every chunk: the whole text for the early return,
\* the trimmed windows otherwise
ChunkSpans ==
  IF windows = << >>
  THEN [k \in 1..Len(chunks) |-> [lo |-> 0, hi |-> Len(text)]]
  ELSE [k \in 1..Len(PushedWindows) |-> SpanOf(PushedWindows[k])]

\* the text shared by window k and window k + 1
Shared(ws, k) == Min(ws[k].end, Len(text)) - ws[k + 1].start

-----------------------------------------------------------------------------
(* C1 *)

\* the windows follow one another from the start of the text to its end
\* without a gap
WindowsContiguous ==
  /\ \A k \in 1..(Len(windows) - 1) :
       /\ windows[k + 1].start > windows[k].start
       /\ windows[k + 1].start <= windows[k].end
       /\ windows[k + 1].end >= windows[k].end
  /\ windows # << >> =>
       /\ windows[1].start = 0
       /\ windows[Len(windows)].end >= Len(text)

\* the returned chunks are the texts of their spans, in text order
ChunksAreSpans ==
  /\ Len(chunks) = Len(ChunkSpans)
  /\ \A k \in 1..Len(chunks) :
       chunks[k] = SubSeq(text, ChunkSpans[k].lo + 1, ChunkSpans[k].hi)
  /\ \A k \in 1..(Len(chunks) - 1) :
       /\ ChunkSpans[k].lo <= ChunkSpans[k + 1].lo
       /\ ChunkSpans[k].hi <= ChunkSpans[k + 1].hi

\* position i of the text lies inside a returned chunk
Covered(i) == \E k \in 1..Len(chunks) : ChunkSpans[k].lo <= i /\ i < ChunkSpans[k].hi

\* C1: for every text and every valid chunkSize and overlap, when chunk has
\* returned, the windows of the loop are in text order, each starts no later
\* than the end of the window before it, the last one reaches the end of the
\* text, the returned chunks are the trimmed windows in order, and every
\* non-whitespace character of the text lies inside a returned chunk.
Coverage ==
  (Done /\ Valid) =>
    /\ WindowsContiguous
    /\ ChunksAreSpans
    /\ \A i \in 0..(Len(text) - 1) : ~IsWhitespace(text[i + 1]) => Covered(i)

\* a valid call that ran three or more windows, skipped a window of
\* whitespace and returned at least two chunks
CoverageWitness ==
  /\ Done /\ Valid
  /\ Len(windows) >= 3
  /\ Len(chunks) >= 2
  /\ \E k \in 1..Len(windows) : ~windows[k].pushed

-----------------------------------------------------------------------------
(* C2 *)

\* C2: for every text, every chunkSize > 0 and every overlap with
\* 0 <= overlap < chunkSize, the chunker eventually returns.
Termination == Valid => <>Done

\* a valid call that returned after at least three iterations of the loop
TerminationWitness == Done /\ Valid /\ iterations >= 3 /\ start >= Len(text)

-----------------------------------------------------------------------------
(* C3 *)

\* C3: for every text, the empty and the whitespace-only ones included, and
\* every valid chunkSize and overlap, every returned chunk has length > 0
\* after trimming.
NonEmptyChunks ==
  (Done /\ Valid) => \A k \in 1..Len(chunks) : Len(Trim(chunks[k])) > 0

-----------------------------------------------------------------------------
(* C4 *)

\* C4: for every text and every valid chunkSize and overlap, no returned
\* chunk is longer than chunkSize.
ChunkLengthBound ==
  (Done /\ Valid) => \A k \in 1..Len(chunks) : Len(chunks[k]) <= chunkSize

-----------------------------------------------------------------------------
(* C5 *)

\* the positions at or before the candidate end that hold a terminator
TerminatorsUpTo(cand) == {i \in 0..Min(cand, Len(text) - 1) : IsTerminator(text[i + 1])}

\* the positions at or before the candidate end that hold a space
SpacesUpTo(cand) == {i \in 0..Min(cand, Len(text) - 1) : text[i + 1] = " "}

\* the last position of S lies strictly past the midpoint of the window at s
LastIsPastMidpoint(S, s) == S # {} /\ 2 * SetMax(S) > 2 * s + chunkSize

\* the rule that chose the end of window w
Rule(w) ==
  IF LastIsPastMidpoint(TerminatorsUpTo(w.start + chunkSize), w.start) THEN "sentence"
  ELSE IF LastIsPastMidpoint(SpacesUpTo(w.start + chunkSize), w.start) THEN "space"
  ELSE "raw"

\* C5: in an iteration where start + chunkSize < length(text) (chunkSize > 0),
\* the window ends right after the last terminator at or before the
\* candidate end if that terminator is strictly past start + chunkSize/2;
\* otherwise at the last space at or before the candidate end if that space
\* is strictly past the midpoint; otherwise at start + chunkSize.  The end is
\* always strictly past the midpoint.
BoundarySelection ==
  chunkSize > 0 =>
    \A k \in 1..Len(windows) :
      LET w == windows[k]
          cand == w.start + chunkSize
      IN  cand < Len(text) =>
            /\ Rule(w) = "sentence" => w.end = SetMax(TerminatorsUpTo(cand)) + 1
            /\ Rule(w) = "space" => w.end = SetMax(SpacesUpTo(cand))
            /\ Rule(w) = "raw" => w.end = cand
            /\ 2 * w.end > 2 * w.start + chunkSize

\* one call in which a window was cut raw although a space or a terminator
\* lay exactly at its midpoint, and another window ended after a terminator
BoundarySelectionWitness ==
  /\ chunkSize > 0
  /\ \E k \in 1..Len(windows) :
       /\ windows[k].start + chunkSize < Len(text)
       /\ Rule(windows[k]) = "raw"
       /\ \E i \in SpacesUpTo(windows[k].start + chunkSize)
                  \cup TerminatorsUpTo(windows[k].start + chunkSize) :
            2 * i = 2 * windows[k].start + chunkSize
  /\ \E k \in 1..Len(windows) :
       /\ windows[k].start + chunkSize < Len(text)
       /\ Rule(windows[k]) = "sentence"

-----------------------------------------------------------------------------
(* C6 *)

\* C6: when length(text) <= chunkSize, chunk returns exactly one element,
\* the text itself.
SingleChunkShortCircuit ==
  (Done /\ Valid /\ Len(text) <= chunkSize) => chunks = <<text>>

-----------------------------------------------------------------------------
(* C7 *)

\* C7: two consecutive windows share at most overlap characters of the
\* text, and so do the windows of two consecutive returned chunks.
OverlapBound ==
  /\ \A k \in 1..(Len(windows) - 1) : Shared(windows, k) <= overlap
  /\ \A k \in 1..(Len(PushedWindows) - 1) : Shared(PushedWindows, k) <= overlap

\* two consecutive windows that share exactly overlap > 0 characters, and
\* two that share fewer because the cursor moved by the minimum of one
OverlapBoundWitness ==
  /\ overlap > 0
  /\ \E k \in 1..(Len(windows) - 1) : Shared(windows, k) = overlap
  /\ \E k \in 1..(Len(windows) - 1) :
       /\ Shared(windows, k) < overlap
       /\ windows[k + 1].start = windows[k].start + 1

-----------------------------------------------------------------------------
(* C8 *)

\* C8: for all chunkSize > 0 and 0 <= overlap < chunkSize the loop runs at
\* most ceil(length(text) / (chunkSize - overlap)) + c iterations; stated
\* for c = 2.
IterationBoundByStride ==
  Valid => iterations <= CeilDiv(Len(text), chunkSize - overlap) + 2

\* the least distance the cursor moves in one iteration: a window ends
\* strictly past its midpoint
MinAdvance == Max(1, (chunkSize \div 2) + 1 - overlap)

\* C8, amended: for all chunkSize > 0 and 0 <= overlap < chunkSize the loop
\* runs at most ceil(length(text) / max(1, floor(chunkSize/2) + 1 - overlap))
\* iterations.
IterationBoundByMinAdvance ==
  Valid => iterations <= CeilDiv(Len(text), MinAdvance)

\* a valid call that ran as many iterations as the amended bound allows,
\* more than ceil(length / (chunkSize - overlap)) + 2 of them
IterationBoundWitness ==
  /\ Done /\ Valid
  /\ MinAdvance > 1
  /\ iterations = CeilDiv(Len(text), MinAdvance)
  /\ iterations > CeilDiv(Len(text), chunkSize - overlap) + 2

-----------------------------------------------------------------------------
(* C9 *)

\* every iteration moves the cursor to max(start + 1, end - overlap), which
\* is past start
CursorAdvances ==
  [][iterations' # iterations =>
       /\ start' = Max(start + 1, windows'[Len(windows')].end - overlap)
       /\ start' > start]_vars

\* C9: in every iteration of the loop the cursor strictly increases, for any
\* overlap >= 0, and a call with overlap >= chunkSize returns as well.
ForwardProgress == CursorAdvances /\ (overlap >= chunkSize => <>Done)

\* a call with overlap >= chunkSize > 0 that returned after iterations in
\* which end - overlap lay behind the cursor
ForwardProgressWitness ==
  /\ Done
  /\ chunkSize > 0 /\ overlap >= chunkSize
  /\ iterations >= 3
  /\ \A k \in 1..Len(windows) : windows[k].end - overlap <= windows[k].start

-----------------------------------------------------------------------------
(* C10 *)

\* C10: a call with chunkSize <= 0 fails with InvalidArgument and returns no
\* chunks.
InvalidChunkSizeRejected ==
  (Done /\ chunkSize <= 0) => (outcome = "InvalidArgument" /\ chunks = << >>)

-----------------------------------------------------------------------------
(* C11 *)

\* C11: chunk applied to the empty string returns a one-element sequence
\* whose only element is the empty string.
EmptyInputSingleton ==
  (Done /\ text = << >>) => chunks = << << >> >>

-----------------------------------------------------------------------------
(* C27 *)

\* the end of the part of the text that the window w takes
EndInText(w) == Min(w.end, Len(text))

\* C27: for every text and every valid chunkSize and overlap, every window
\* after the first extends past the end of the window before it, and no
\* returned chunk lies wholly inside the chunk before it; in particular the
\* last chunk is not a suffix of the chunk before it
NoRedundantChunk ==
  (Done /\ Valid) =>
    /\ \A k \in 1..(Len(PushedWindows) - 1) :
         EndInText(PushedWindows[k + 1]) > EndInText(PushedWindows[k])
    /\ \A k \in 1..(Len(ChunkSpans) - 1) :
         ~(/\ ChunkSpans[k].lo <= ChunkSpans[k + 1].lo
           /\ ChunkSpans[k + 1].hi <= ChunkSpans[k].hi)

-----------------------------------------------------------------------------
(* TextFormatter: characters and regular expressions *)

\* A string is the sequence of its characters, a character a one-character
\* string; the bullet U+2022 and the grave accent U+0060 are written by their
\* code points.
Bullet == "U+2022"

Grave == "U+0060"

UpperOf ==
  [a |-> "A", b |-> "B", c |-> "C", d |-> "D", e |-> "E", f |-> "F", g |-> "G",
   h |-> "H", i |-> "I", j |-> "J", k |-> "K", l |-> "L", m |-> "M", n |-> "N",
   o |-> "O", p |-> "P", q |-> "Q", r |-> "R", s |-> "S", t |-> "T", u |-> "U",
   v |-> "V", w |-> "W", x |-> "X", y |-> "Y", z |-> "Z"]

\* [a-z], [A-Z], \d, \s, \w and [ \t]
Lower == DOMAIN UpperOf

Upper == {UpperOf[c] : c \in Lower}

Digit == {"0", "1", "2", "3", "4", "5", "6", "7", "8", "9"}

Space == {" ", "\t", "\n"}

Blank == {" ", "\t"}

WordChar == Lower \cup Upper \cup Digit \cup {"_"}

ToLower(c) == IF c \in Upper THEN CHOOSE l \in Lower : UpperOf[l] = c ELSE c

ToUpper(c) == IF c \in Lower THEN UpperOf[c] ELSE c

\* the character c is in the class S; under the flag i, case is ignored
InClass(c, S, ci) == c \in S \/ (ci /\ (ToLower(c) \in S \/ ToUpper(c) \in S))

\* the parts of a regular expression: [S], [^S], concatenation, alternation,
\* repetition {lo,hi}, ^, $ and \b
Cls(S) == [op |-> "cls", set |-> S]

Not(S) == [op |-> "not", set |-> S]

Cat(parts) == [op |-> "cat", parts |-> parts]

Alt(parts) == [op |-> "alt", parts |-> parts]

Rep(r, lo, hi) == [op |-> "rep", of |-> r, lo |-> lo, hi |-> hi]

\* the upper limit of *, + and {lo,}
Unbounded == -1

Opt(r) == Rep(r, 0, 1)

Star(r) == Rep(r, 0, Unbounded)

Plus(r) == Rep(r, 1, Unbounded)

Bol == [op |-> "bol"]

Eol == [op |-> "eol"]

Wb == [op |-> "wb"]

\* the literal string w
Lit(w) == Cat([k \in 1..Len(w) |-> Cls({w[k]})])

\* is there a word character at position i of t
WordAt(t, i) == i >= 0 /\ i < Len(t) /\ t[i + 1] \in WordChar

\* In(x), with x evaluated once however often In uses its argument
Let(x, In(_)) == CHOOSE y \in {In(v) : v \in {x}} : TRUE

RECURSIVE Ends(_, _, _, _)
RECURSIVE CatEnds(_, _, _, _, _)
RECURSIVE RepEnds(_, _, _, _, _, _, _)

\* the positions at which a match of re that begins at position i of the
\* line t can end
Ends(re, t, i, ci) ==
  CASE re.op = "cls" -> IF i < Len(t) /\ InClass(t[i + 1], re.set, ci) THEN {i + 1} ELSE {}
    [] re.op = "not" -> IF i < Len(t) /\ ~InClass(t[i + 1], re.set, ci) THEN {i + 1} ELSE {}
    [] re.op = "bol" -> IF i = 0 THEN {i} ELSE {}
    [] re.op = "eol" -> IF i = Len(t) THEN {i} ELSE {}
    [] re.op = "wb" -> IF WordAt(t, i - 1) # WordAt(t, i) THEN {i} ELSE {}
    [] re.op = "cat" -> CatEnds(re.parts, 1, t, {i}, ci)
    [] re.op = "alt" -> UNION {Ends(re.parts[k], t, i, ci) : k \in 1..Len(re.parts)}
    [] re.op = "rep" -> RepEnds(re.of, re.lo, re.hi, t, {i}, 0, ci)

CatEnds(parts, k, t, S, ci) ==
  Let(S, LAMBDA T :
    IF k > Len(parts) \/ T = {}
    THEN T
    ELSE CatEnds(parts, k + 1, t, UNION {Ends(parts[k], t, j, ci) : j \in T}, ci))

RepEnds(r, lo, hi, t, S, n, ci) ==
  Let(S, LAMBDA T :
    LET here == IF n >= lo THEN T ELSE {}
    IN  IF T = {} \/ n = hi \/ n > Len(t)
        THEN here
        ELSE here \cup RepEnds(r, lo, hi, t, UNION {Ends(r, t, j, ci) : j \in T}, n + 1, ci))

\* the positions at which a match of re in t begins
Starts(re, t, ci) == {i \in 0..Len(t) : Ends(re, t, i, ci) # {}}

\* RegExp.prototype.test
Test(re, t, ci) == Starts(re, t, ci) # {}

\* the match that replace finds at or after position from: the leftmost one,
\* taken to its longest end, which is the end the backtracking matcher
\* chooses for the patterns of this module
FindFrom(re, t, from, ci) ==
  Let({i \in from..Len(t) : Ends(re, t, i, ci) # {}}, LAMBDA starts :
    IF starts = {}
    THEN [found |-> FALSE, from |-> 0, to |-> 0]
    ELSE Let(CHOOSE i \in starts : \A j \in starts : i <= j, LAMBDA a :
           [found |-> TRUE, from |-> a, to |-> SetMax(Ends(re, t, a, ci))]))

RECURSIVE MatchesFrom(_, _, _, _)

\* the matches a pattern with the flag g finds from position from on, in
\* order; after an empty match the search resumes one character later
MatchesFrom(re, t, from, ci) ==
  Let(FindFrom(re, t, from, ci), LAMBDA m :
    IF ~m.found
    THEN << >>
    ELSE <<[from |-> m.from, to |-> m.to]>>
         \o MatchesFrom(re, t, Max(m.to, m.from + 1), ci))

\* t with each match of ms replaced by With(the matched text)
Replace(t, ms, With(_)) ==
  LET build[k \in 0..Len(ms)] ==
        IF k = 0
        THEN << >>
        ELSE build[k - 1]
             \o Substring(t, IF k = 1 THEN 0 ELSE ms[k - 1].to, ms[k].from)
             \o With(Substring(t, ms[k].from, ms[k].to))
  IN  build[Len(ms)] \o Substring(t, IF ms = << >> THEN 0 ELSE ms[Len(ms)].to, Len(t))

\* String.prototype.replace with a pattern with the flag g; the empty string
\* without a match is returned as it is
ReplaceAll(re, t, With(_), ci) ==
  Let(t, LAMBDA s :
    IF Len(s) = 0 /\ ~Test(re, s, ci)
    THEN s
    ELSE Let(MatchesFrom(re, s, 0, ci), LAMBDA ms : Replace(s, ms, With)))

\* String.prototype.replace with a pattern without the flag g
ReplaceFirst(re, t, With(_), ci) ==
  Let(t, LAMBDA s :
    Let(FindFrom(re, s, 0, ci), LAMBDA m :
      IF m.found THEN Replace(s, <<[from |-> m.from, to |-> m.to]>>, With) ELSE s))

-----------------------------------------------------------------------------
(* TextFormatter, line by line: formatAnalysisText *)

\* A text is the sequence of its lines, the string being the lines joined by
\* "\n"; the empty string is the text without lines. The functions of the
\* formatter are given first by what they do to one line and then by what
\* they do to a text. A pattern is applied to each line by itself: for the
\* flags g and m that is what the code does as long as no match runs across
\* the end of a line, and the texts of FormatterInputs are such texts.

\* /^#{1,6}\s+/gm
markdownHeader == Cat(<<Bol, Rep(Cls({"#"}), 1, 6), Plus(Cls(Space))>>)

\* /\*\*([^*]+)\*\*/g
boldText == Cat(<<Lit(<<"*", "*">>), Plus(Not({"*"})), Lit(<<"*", "*">>)>>)

\* /\*([^*]+)\*/g
italicText == Cat(<<Lit(<<"*">>), Plus(Not({"*"})), Lit(<<"*">>)>>)
\* the pattern of inline code: a grave accent, [^grave accent]+, a grave accent, flag g
\* /`([^`]+)`/g
inlineCode == Cat(<<Lit(<<"U+0060">>), Plus(Not({"U+0060"})), Lit(<<"U+0060">>)>>)

\* /[ \t]{3,}/g
wideSpace == Rep(Cls({" ", "\t"}), 3, Unbounded)

\* /^[\s]*[-U+2022*]\s+/gm
bulletMarker == Cat(<<Bol, Star(Cls(Space)), Cls({"-", "U+2022", "*"}), Plus(Cls(Space))>>)

\* /^[\s]*(\d+)[.)]\s+/gm
numberMarker == Cat(<<Bol, Star(Cls(Space)), Plus(Cls(Digit)), Cls({".", ")"}), Plus(Cls(Space))>>)

\* /^[ \t]+|[ \t]+$/gm
lineEdges == Alt(<<Cat(<<Bol, Plus(Cls({" ", "\t"}))>>), Cat(<<Plus(Cls({" ", "\t"})), Eol>>)>>)

\* /  +/g
doubleSpace == Cat(<<Lit(<<" ">>), Plus(Cls({" "}))>>)

\* the group $1 of boldText, italicText and inlineCode: the match without
\* its n delimiting characters on each side
Inner(m, n) == Substring(m, n, Len(m) - n)

\* the group $1 of numberMarker: the digits of the match
Digits(m) == SelectSeq(m, LAMBDA c : c \in Digit)

\* formatAnalysisText on one line
FormatLine(line) ==
  LET l1 == ReplaceAll(markdownHeader, line, LAMBDA m : << >>, FALSE)
      l2 == ReplaceAll(boldText, l1, LAMBDA m : Inner(m, 2), FALSE)
      l3 == ReplaceAll(italicText, l2, LAMBDA m : Inner(m, 1), FALSE)
      l4 == ReplaceAll(inlineCode, l3, LAMBDA m : Inner(m, 1), FALSE)
      l5 == ReplaceAll(wideSpace, l4, LAMBDA m : <<" ">>, FALSE)
      l6 == ReplaceAll(bulletMarker, l5, LAMBDA m : <<Bullet, " ">>, FALSE)
      l7 == ReplaceAll(numberMarker, l6, LAMBDA m : Digits(m) \o <<".", " ">>, FALSE)
      l8 == ReplaceAll(lineEdges, l7, LAMBDA m : << >>, FALSE)
  IN  ReplaceAll(doubleSpace, l8, LAMBDA m : <<" ">>, FALSE)


-----------------------------------------------------------------------------
(* TextFormatter, line by line: filterUnwantedContent *)

dynamicPatterns == <<
  \* /^"?[A-Z\s]{3,}(?:FOR|TO|OF|WITH|IN|USING|BY)\s+[A-Z\s]{3,}"?\s*$/gmi
  [re |-> Cat(<<Bol, Opt(Cls({"\""})), Rep(Cls(Upper \cup Space), 3, Unbounded), Alt(<<Lit(<<"F", "O", "R">>), Lit(<<"T", "O">>), Lit(<<"O", "F">>), Lit(<<"W", "I", "T", "H">>), Lit(<<"I", "N">>), Lit(<<"U", "S", "I", "N", "G">>), Lit(<<"B", "Y">>)>>), Plus(Cls(Space)), Rep(Cls(Upper \cup Space), 3, Unbounded), Opt(Cls({"\""})), Star(Cls(Space)), Eol>>),
   ci |-> TRUE],
  \* /^"?(?:[A-Z]+\s*){2,}(?:Developed?|Created?|Built?|Designed?)\s+[a-z\s]{5,50}\s*"?\s*$/gmi
  [re |-> Cat(<<Bol, Opt(Cls({"\""})), Rep(Cat(<<Plus(Cls(Upper)), Star(Cls(Space))>>), 2, Unbounded), Alt(<<Cat(<<Lit(<<"D", "e", "v", "e", "l", "o", "p", "e">>), Opt(Cls({"d"}))>>), Cat(<<Lit(<<"C", "r", "e", "a", "t", "e">>), Opt(Cls({"d"}))>>), Cat(<<Lit(<<"B", "u", "i", "l">>), Opt(Cls({"t"}))>>), Cat(<<Lit(<<"D", "e", "s", "i", "g", "n", "e">>), Opt(Cls({"d"}))>>)>>), Plus(Cls(Space)), Rep(Cls(Lower \cup Space), 5, 50), Star(Cls(Space)), Opt(Cls({"\""})), Star(Cls(Space)), Eol>>),
   ci |-> TRUE],
  \* /\b[a-zA-Z]+(?:\s+[a-zA-Z]){1,3}\s+[a-zA-Z]+\b/g
  [re |-> Cat(<<Wb, Plus(Cls(Lower \cup Upper)), Rep(Cat(<<Plus(Cls(Space)), Cls(Lower \cup Upper)>>), 1, 3), Plus(Cls(Space)), Plus(Cls(Lower \cup Upper)), Wb>>),
   ci |-> FALSE],
  \* /^\s*(?:LLM\d*|API|SDK|ML|AI|NLP|SQL)\s*[a-z\s]{0,10}\s*$/gmi
  [re |-> Cat(<<Bol, Star(Cls(Space)), Alt(<<Cat(<<Lit(<<"L", "L", "M">>), Star(Cls(Digit))>>), Lit(<<"A", "P", "I">>), Lit(<<"S", "D", "K">>), Lit(<<"M", "L">>), Lit(<<"A", "I">>), Lit(<<"N", "L", "P">>), Lit(<<"S", "Q", "L">>)>>), Star(Cls(Space)), Rep(Cls(Lower \cup Space), 0, 10), Star(Cls(Space)), Eol>>),
   ci |-> TRUE],
  \* /^"?(?:Developed?|Created?|Built?|Designed?)\s+(?:a|an|the)?\s+[^.]{5,30}\s*"?\s*$/gmi
  [re |-> Cat(<<Bol, Opt(Cls({"\""})), Alt(<<Cat(<<Lit(<<"D", "e", "v", "e", "l", "o", "p", "e">>), Opt(Cls({"d"}))>>), Cat(<<Lit(<<"C", "r", "e", "a", "t", "e">>), Opt(Cls({"d"}))>>), Cat(<<Lit(<<"B", "u", "i", "l">>), Opt(Cls({"t"}))>>), Cat(<<Lit(<<"D", "e", "s", "i", "g", "n", "e">>), Opt(Cls({"d"}))>>)>>), Plus(Cls(Space)), Opt(Alt(<<Lit(<<"a">>), Lit(<<"a", "n">>), Lit(<<"t", "h", "e">>)>>)), Plus(Cls(Space)), Rep(Not({"."}), 5, 30), Star(Cls(Space)), Opt(Cls({"\""})), Star(Cls(Space)), Eol>>),
   ci |-> TRUE],
  \* /.*(?:This single|powerful statement|reveals a candidate).*$/gmi
  [re |-> Cat(<<Star(Not({"\n"})), Alt(<<Lit(<<"T", "h", "i", "s", " ", "s", "i", "n", "g", "l", "e">>), Lit(<<"p", "o", "w", "e", "r", "f", "u", "l", " ", "s", "t", "a", "t", "e", "m", "e", "n", "t">>), Lit(<<"r", "e", "v", "e", "a", "l", "s", " ", "a", " ", "c", "a", "n", "d", "i", "d", "a", "t", "e">>)>>), Star(Not({"\n"})), Eol>>),
   ci |-> TRUE],
  \* /.*(?:Here's a structured breakdown|structured analysis).*$/gmi
  [re |-> Cat(<<Star(Not({"\n"})), Alt(<<Lit(<<"H", "e", "r", "e", "'", "s", " ", "a", " ", "s", "t", "r", "u", "c", "t", "u", "r", "e", "d", " ", "b", "r", "e", "a", "k", "d", "o", "w", "n">>), Lit(<<"s", "t", "r", "u", "c", "t", "u", "r", "e", "d", " ", "a", "n", "a", "l", "y", "s", "i", "s">>)>>), Star(Not({"\n"})), Eol>>),
   ci |-> TRUE],
  \* /.*(?:demonstrates hands-on experience with).*$/gmi
  [re |-> Cat(<<Star(Not({"\n"})), Lit(<<"d", "e", "m", "o", "n", "s", "t", "r", "a", "t", "e", "s", " ", "h", "a", "n", "d", "s", "-", "o", "n", " ", "e", "x", "p", "e", "r", "i", "e", "n", "c", "e", " ", "w", "i", "t", "h">>), Star(Not({"\n"})), Eol>>),
   ci |-> TRUE],
  \* /^"[^"]{5,50}"\s*$/gm
  [re |-> Cat(<<Bol, Lit(<<"\"">>), Rep(Not({"\""}), 5, 50), Lit(<<"\"">>), Star(Cls(Space)), Eol>>),
   ci |-> FALSE],
  \* /^\s*(?:[A-Z]{2,}\s*){2,}[a-z\s]{0,20}\s*$/gmi
  [re |-> Cat(<<Bol, Star(Cls(Space)), Rep(Cat(<<Rep(Cls(Upper), 2, Unbounded), Star(Cls(Space))>>), 2, Unbounded), Rep(Cls(Lower \cup Space), 0, 20), Star(Cls(Space)), Eol>>),
   ci |-> TRUE] >>

\* dynamicPatterns.forEach(pattern => filtered = filtered.replace(pattern, ''))
\* on one line
RemovePatterns(line) ==
  LET f[k \in 0..Len(dynamicPatterns)] ==
        IF k = 0
        THEN line
        ELSE ReplaceAll(dynamicPatterns[k].re, f[k - 1], LAMBDA m : << >>, dynamicPatterns[k].ci)
  IN  f[Len(dynamicPatterns)]

\* /^[-U+2022*]\s+/
leadingBullet == Cat(<<Bol, Cls({"-", "U+2022", "*"}), Plus(Cls(Space))>>)

\* /^[A-Z\s]{3,}$/
allCaps == Cat(<<Bol, Rep(Cls(Upper \cup Space), 3, Unbounded), Eol>>)

\* lines shorter than this are dropped unless they are bullets
MinLineLength == 15

\* the filter of meaningfulLines
IsMeaningful(line) ==
  LET trimmed == Trim(line)
  IN  /\ trimmed # << >>
      /\ ~(Len(trimmed) < MinLineLength /\ ~Test(leadingBullet, trimmed, FALSE))
      /\ ~Test(allCaps, trimmed, FALSE)


-----------------------------------------------------------------------------
(* TextFormatter, line by line: convertToBulletPoints *)

\* /^(?:[-U+2022*]|\d+[.)]|[A-Z][A-Z\s&\-']{3,}(?::|$))/
headerOrBullet ==
  Cat(<<Bol, Alt(<<Cls({"-", "U+2022", "*"}), Cat(<<Plus(Cls(Digit)), Cls({".", ")"})>>), Cat(<<Cls(Upper), Rep(Cls(Upper \cup Space \cup {"&", "-", "'"}), 3, Unbounded), Alt(<<
    Lit(<<":">>), Eol>>)>>)>>)>>)

\* the sentence ends of the split pattern /(?<=[.!?])\s+/
SentenceEnd == {".", "!", "?"}

\* the position after the white space that begins at position i
RECURSIVE SkipSpace(_, _)
SkipSpace(t, i) == IF i < Len(t) /\ t[i + 1] \in Space THEN SkipSpace(t, i + 1) ELSE i

\* line.split(/(?<=[.!?])\s+/), the piece under way beginning at from
RECURSIVE SplitFrom(_, _, _)
SplitFrom(t, from, i) ==
  IF i >= Len(t)
  THEN <<Substring(t, from, Len(t))>>
  ELSE IF i > 0 /\ t[i] \in SentenceEnd /\ t[i + 1] \in Space
       THEN <<Substring(t, from, i)>> \o SplitFrom(t, SkipSpace(t, i), SkipSpace(t, i))
       ELSE SplitFrom(t, from, i + 1)

\* pieces of at most this many characters are not sentences
MinSentenceLength == 10

\* line.split(/(?<=[.!?])\s+/).filter(s => s.trim().length > 10)
Sentences(t) == SelectSeq(SplitFrom(t, 0, 0), LAMBDA s : Len(Trim(s)) > MinSentenceLength)

\* lines longer than this are split into sentences by convertToBulletPoints
LongLineLength == 80

\* lines longer than this get a bullet
SubstantialLineLength == 15

\* the lines that one line of a single segment becomes
ConvertLine(line) ==
  IF Test(headerOrBullet, line, FALSE)
  THEN <<line>>
  ELSE IF Len(line) > LongLineLength /\ Len(Sentences(line)) > 1
       THEN [k \in 1..Len(Sentences(line)) |-> <<Bullet, " ">> \o Trim(Sentences(line)[k])]
       ELSE IF Len(line) > SubstantialLineLength
            THEN <<<<Bullet, " ">> \o line>>
            ELSE <<line>>

-----------------------------------------------------------------------------
(* TextFormatter.assessContentPriority, categorizeContent *)

highPriorityKeywords ==
  Cat(<<Wb, Alt(<<Lit(<<"a", "c", "h", "i", "e", "v", "e", "d">>),
    Lit(<<"i", "n", "c", "r", "e", "a", "s", "e", "d">>),
    Lit(<<"i", "m", "p", "r", "o", "v", "e", "d">>),
    Lit(<<"r", "e", "d", "u", "c", "e", "d">>), Lit(<<"l", "e", "d">>),
    Lit(<<"m", "a", "n", "a", "g", "e", "d">>),
    Lit(<<"d", "e", "v", "e", "l", "o", "p", "e", "d">>),
    Lit(<<"c", "r", "e", "a", "t", "e", "d">>),
    Lit(<<"d", "e", "s", "i", "g", "n", "e", "d">>),
    Lit(<<"i", "m", "p", "l", "e", "m", "e", "n", "t", "e", "d">>),
    Lit(<<"o", "p", "t", "i", "m", "i", "z", "e", "d">>),
    Lit(<<"s", "t", "r", "e", "a", "m", "l", "i", "n", "e", "d">>),
    Lit(<<"d", "e", "l", "i", "v", "e", "r", "e", "d">>),
    Lit(<<"e", "x", "e", "c", "u", "t", "e", "d">>),
    Lit(<<"l", "a", "u", "n", "c", "h", "e", "d">>),
    Lit(<<"b", "u", "i", "l", "t">>)>>), Wb>>)

mediumPriorityKeywords ==
  Cat(<<Wb, Alt(<<Lit(<<"e", "x", "p", "e", "r", "i", "e", "n", "c", "e">>),
    Lit(<<"s", "k", "i", "l", "l", "s">>),
    Lit(<<"k", "n", "o", "w", "l", "e", "d", "g", "e">>),
    Lit(<<"p", "r", "o", "f", "i", "c", "i", "e", "n", "t">>),
    Lit(<<"f", "a", "m", "i", "l", "i", "a", "r">>), Lit(<<"w", "o", "r", "k", "e", "d">>),
    Lit(<<"a", "s", "s", "i", "s", "t", "e", "d">>),
    Lit(<<"p", "a", "r", "t", "i", "c", "i", "p", "a", "t", "e", "d">>),
    Lit(<<"c", "o", "l", "l", "a", "b", "o", "r", "a", "t", "e", "d">>),
    Lit(<<"s", "u", "p", "p", "o", "r", "t", "e", "d">>)>>), Wb>>)

\* as assessContentPriority, with the medium keywords looked for first
AssessMediumFirst(content) ==
  IF Test(mediumPriorityKeywords, content, TRUE) THEN "medium"
  ELSE IF Test(highPriorityKeywords, content, TRUE) THEN "high"
  ELSE "low"

assessContentPriority(content) ==
  IF Test(highPriorityKeywords, content, TRUE) THEN "high"
  ELSE IF Test(mediumPriorityKeywords, content, TRUE) THEN "medium"
  ELSE "low"

experienceWords ==
  Cat(<<Wb, Alt(<<Cat(<<Lit(<<"y", "e", "a", "r">>), Opt(Cls({"s"}))>>),
    Lit(<<"e", "x", "p", "e", "r", "i", "e", "n", "c", "e">>),
    Lit(<<"b", "a", "c", "k", "g", "r", "o", "u", "n", "d">>)>>), Wb>>)

technicalWords ==
  Cat(<<Wb, Alt(<<Cat(<<Lit(<<"s", "k", "i", "l", "l">>), Opt(Cls({"s"}))>>),
    Lit(<<"t", "e", "c", "h", "n", "o", "l", "o", "g", "y">>),
    Lit(<<"p", "r", "o", "g", "r", "a", "m", "m", "i", "n", "g">>),
    Lit(<<"s", "o", "f", "t", "w", "a", "r", "e">>), Cat(<<
    Lit(<<"t", "o", "o", "l">>), Opt(Cls({"s"}))>>)>>), Wb>>)

educationWords ==
  Cat(<<Wb, Alt(<<Lit(<<"e", "d", "u", "c", "a", "t", "i", "o", "n">>),
    Lit(<<"d", "e", "g", "r", "e", "e">>),
    Lit(<<"c", "e", "r", "t", "i", "f", "i", "c", "a", "t", "i", "o", "n">>),
    Lit(<<"t", "r", "a", "i", "n", "i", "n", "g">>),
    Lit(<<"c", "o", "u", "r", "s", "e">>)>>), Wb>>)

achievementWords ==
  Cat(<<Wb, Alt(<<Lit(<<"a", "c", "h", "i", "e", "v", "e", "d">>),
    Lit(<<"a", "c", "c", "o", "m", "p", "l", "i", "s", "h", "e", "d">>),
    Lit(<<"d", "e", "l", "i", "v", "e", "r", "e", "d">>),
    Lit(<<"i", "n", "c", "r", "e", "a", "s", "e", "d">>),
    Lit(<<"i", "m", "p", "r", "o", "v", "e", "d">>)>>), Wb>>)

leadershipWords ==
  Cat(<<Wb, Alt(<<Lit(<<"l", "e", "a", "d", "e", "r", "s", "h", "i", "p">>),
    Lit(<<"m", "a", "n", "a", "g", "e", "d">>), Lit(<<"l", "e", "d">>),
    Lit(<<"t", "e", "a", "m">>), Lit(<<"p", "r", "o", "j", "e", "c", "t">>)>>), Wb>>)

categorizeContent(content) ==
  IF Test(experienceWords, content, TRUE) THEN "experience"
  ELSE IF Test(technicalWords, content, TRUE) THEN "technical"
  ELSE IF Test(educationWords, content, TRUE) THEN "education"
  ELSE IF Test(achievementWords, content, TRUE) THEN "achievement"
  ELSE IF Test(leadershipWords, content, TRUE) THEN "leadership"
  ELSE "general"


-----------------------------------------------------------------------------
(* TextFormatter, line by line: the items of the parsers *)

\* /^[-U+2022*]\s*/
bulletPrefix == Cat(<<Bol, Cls({"-", "U+2022", "*"}), Star(Cls(Space))>>)

\* the item that parseAsBulletList makes of one line
BulletItem(line) ==
  LET content == Trim(ReplaceFirst(bulletPrefix, line, LAMBDA m : << >>, FALSE))
  IN  [type |-> "bullet",
       content |-> content,
       priority |-> assessContentPriority(content),
       category |-> categorizeContent(content)]

\* /^(?:\d+\.\s*)?[A-Z][A-Z\s&\-']{3,}(?::|$)/
isHeader == Cat(<<Bol, Opt(Cat(<<Plus(Cls(Digit)), Lit(<<".">>), Star(Cls(Space))>>)), Cls(Upper), Rep(Cls(Upper \cup Space \cup {"&", "-", "'"}), 3, Unbounded), Alt(<<Lit(<<":">>), Eol>>)>>)

\* /^(?:[-U+2022*]|\d+[.)])\s+/
isBullet == Cat(<<Bol, Alt(<<Cls({"-", "U+2022", "*"}), Cat(<<Plus(Cls(Digit)), Cls({".", ")"})>>)>>), Plus(Cls(Space))>>)

\* /^\d+\.\s*/
headerNumber == Cat(<<Bol, Plus(Cls(Digit)), Lit(<<".">>), Star(Cls(Space))>>)

\* /:$/
finalColon == Cat(<<Lit(<<":">>), Eol>>)

\* /^[-U+2022*\s]*/
bulletsAndSpace == Cat(<<Bol, Star(Cls(Space \cup {"-", "U+2022", "*"}))>>)

\* line.match(isHeader)
IsSectionHeader(line) == Test(isHeader, line, FALSE)

\* line.replace(/^\d+\.\s*/, '').replace(/:$/, '').trim()
SectionTitle(line) ==
  Trim(ReplaceFirst(finalColon,
                    ReplaceFirst(headerNumber, line, LAMBDA m : << >>, FALSE),
                    LAMBDA m : << >>, FALSE))

\* currentSection = null
NoSection == [type |-> "none"]

Item(content) == [type |-> "bullet", content |-> content, priority |-> assessContentPriority(content)]

\* paragraphs longer than this are split into sentences by parseStructuredSections
LongParagraphLength == 100

\* the items that a line adds to the current section
SectionItems(line) ==
  IF Test(isBullet, line, FALSE)
  THEN <<Item(Trim(ReplaceFirst(isBullet, line, LAMBDA m : << >>, FALSE)))>>
  ELSE IF Len(line) > SubstantialLineLength
       THEN LET bulletContent == Trim(ReplaceFirst(bulletsAndSpace, line, LAMBDA m : << >>, FALSE))
            IN  IF Len(bulletContent) > LongParagraphLength
                THEN [k \in 1..Len(Sentences(bulletContent)) |->
                       [type |-> "bullet",
                        content |-> Trim(Sentences(bulletContent)[k]),
                        priority |-> assessContentPriority(Sentences(bulletContent)[k])]]
                ELSE <<Item(bulletContent)>>
       ELSE << >>

\* /^(?:[-U+2022*]|\d+[.)]|[a-z][.)])\s+/i
listPattern == Cat(<<Bol, Alt(<<Cls({"-", "U+2022", "*"}), Cat(<<Plus(Cls(Digit)), Cls({".", ")"})>>), Cat(<<Cls(Lower), Cls({".", ")"})>>)>>), Plus(Cls(Space))>>)

\* lines longer than this that are not list lines become descriptions
MinDescriptionLength == 10

\* the items that parseListContent makes of one line
ListItems(line) ==
  IF Test(listPattern, line, TRUE)
  THEN LET content == Trim(ReplaceFirst(listPattern, line, LAMBDA m : << >>, TRUE))
       IN  <<[type |-> "listItem",
              content |-> content,
              priority |-> assessContentPriority(content),
              category |-> categorizeContent(content)]>>
  ELSE IF Len(line) > MinDescriptionLength
       THEN <<[type |-> "description",
               content |-> line,
               priority |-> assessContentPriority(line)]>>
       ELSE << >>

-----------------------------------------------------------------------------
(* TextFormatter, line by line: the patterns of parseStructuredContent *)

\* /^[A-Z][A-Z\s&\-']{3,}(?::|$)/
headerPattern == Cat(<<Bol, Cls(Upper), Rep(Cls(Upper \cup Space \cup {"&", "-", "'"}), 3, Unbounded), Alt(<<Lit(<<":">>), Eol>>)>>)

\* /^\d+\.\s*[A-Z][A-Z\s&\-']{3,}/
numberedHeaderPattern == Cat(<<Bol, Plus(Cls(Digit)), Lit(<<".">>), Star(Cls(Space)), Cls(Upper), Rep(Cls(Upper \cup Space \cup {"&", "-", "'"}), 3, Unbounded)>>)

\* listPattern.test(line)
IsListLine(line) == Test(listPattern, line, TRUE)

\* headerPattern.test(line) || numberedHeaderPattern.test(line)
IsHeaderLine(line) ==
  Test(headerPattern, line, FALSE) \/ Test(numberedHeaderPattern, line, FALSE)

-----------------------------------------------------------------------------
(* TextFormatter: the texts that are parsed *)

\* the lines that the texts are made of
LinePool == {
  \* EXPERIENCE:
  <<"E", "X", "P", "E", "R", "I", "E", "N", "C", "E", ":">>,
  \* - Built system X
  <<"-", " ", "B", "u", "i", "l", "t", " ", "s", "y", "s", "t", "e", "m", " ", "X">>,
  \* - Led team Y
  <<"-", " ", "L", "e", "d", " ", "t", "e", "a", "m", " ", "Y">>,
  \* PROFESSIONAL EXPERIENCE:
  <<"P", "R", "O", "F", "E", "S", "S", "I", "O", "N", "A", "L", " ", "E", "X", "P", "E", "R", "I", "E", "N", "C", "E", ":">>,
  \* - improved performance by 30%
  <<"-", " ", "i", "m", "p", "r", "o", "v", "e", "d", " ", "p", "e", "r", "f", "o", "r", "m", "a", "n", "c", "e", " ", "b", "y", " ", "3", "0", "%">>,
  \* - assisted with testing
  <<"-", " ", "a", "s", "s", "i", "s", "t", "e", "d", " ", "w", "i", "t", "h", " ", "t", "e", "s", "t", "i", "n", "g">>,
  \* - references on request
  <<"-", " ", "r", "e", "f", "e", "r", "e", "n", "c", "e", "s", " ", "o", "n", " ", "r", "e", "q", "u", "e", "s", "t">>,
  \* Python, SQL, Go
  <<"P", "y", "t", "h", "o", "n", ",", " ", "S", "Q", "L", ",", " ", "G", "o">>,
  \* 1. SKILLS and tools used
  <<"1", ".", " ", "S", "K", "I", "L", "L", "S", " ", "a", "n", "d", " ", "t", "o", "o", "l", "s", " ", "u", "s", "e", "d">>,
  \* Worked with Python daily.
  <<"W", "o", "r", "k", "e", "d", " ", "w", "i", "t", "h", " ", "P", "y", "t", "h", "o", "n", " ", "d", "a", "i", "l", "y", ".">>,
  \* This single line is noise!
  <<"T", "h", "i", "s", " ", "s", "i", "n", "g", "l", "e", " ", "l", "i", "n", "e", " ", "i", "s", " ", "n", "o", "i", "s", "e", "!">>,
  \* - managed team skills
  <<"-", " ", "m", "a", "n", "a", "g", "e", "d", " ", "t", "e", "a", "m", " ", "s", "k", "i", "l", "l", "s">>,
  \* - over 5 years in retail
  <<"-", " ", "o", "v", "e", "r", " ", "5", " ", "y", "e", "a", "r", "s", " ", "i", "n", " ", "r", "e", "t", "a", "i", "l">> }

\* the largest number of lines of a text
MaxLines == 3

Letter == Lower \cup Upper

\* No match of a pattern runs from line a into the line b that follows it:
\* the pattern that can, a word, one to three single letters and a word with
\* white space between them, needs a line that ends in a single letter with
\* a letter at the beginning of the next line.
Apart(a, b) ==
  ~(/\ Len(a) >= 2
    /\ a[Len(a)] \in Letter
    /\ a[Len(a) - 1] \in Space
    /\ b[1] \in Letter)

FormatterTexts ==
  {t \in UNION {[1..n -> LinePool] : n \in 0..MaxLines} :
     \A k \in 1..(Len(t) - 1) : Apart(t[k], t[k + 1])}

\* the values of JavaScript passed as the text: null, undefined, numbers,
\* booleans, and strings given by their lines
FormatterInputs ==
  {[kind |-> "null"], [kind |-> "undefined"]}
  \cup {[kind |-> "number", value |-> n] : n \in {0, 42}}
  \cup {[kind |-> "boolean", value |-> b] : b \in BOOLEAN}
  \cup {[kind |-> "string", lines |-> t] : t \in FormatterTexts}

\* what the functions of the formatter make of one line
OfLine(line) ==
  [FormatLine |-> FormatLine(line),
   RemovePatterns |-> RemovePatterns(line),
   IsMeaningful |-> IsMeaningful(line),
   ConvertLine |-> ConvertLine(line),
   IsListLine |-> IsListLine(line),
   IsHeaderLine |-> IsHeaderLine(line),
   IsSectionHeader |-> IsSectionHeader(line),
   SectionTitle |-> SectionTitle(line),
   SectionItems |-> SectionItems(line),
   ListItems |-> ListItems(line),
   BulletItem |-> BulletItem(line)]

\* the lines that come up while a text of FormatterTexts is parsed
FormattedLines == {FormatLine(l) : l \in LinePool}

CleanedLines == {Trim(RemovePatterns(l)) : l \in FormattedLines}

BulletLines == UNION {{ConvertLine(l)[k] : k \in 1..Len(ConvertLine(l))} : l \in CleanedLines}

KnownLines == LinePool \cup FormattedLines \cup CleanedLines \cup BulletLines

\* OfLine on these lines, worked out once
OfKnownLine == [l \in KnownLines |-> OfLine(l)]

\* the functions of the formatter are pure: the call looks up what they make
\* of a line
Line(l) == lineTable[l]

-----------------------------------------------------------------------------
(* TextFormatter, text by text *)

\* String.prototype.trim on a text: the white space before the first line
\* and after the last one goes
TrimText(lines) ==
  IF lines = << >>
  THEN << >>
  ELSE [k \in 1..Len(lines) |->
         LET l == lines[k]
             a == IF k = 1 THEN LeadingWs(l) ELSE 0
             b == IF k = Len(lines) THEN Len(l) - TrailingWs(l) ELSE Len(l)
         IN  Substring(l, a, Max(a, b))]

\* the lines of a sequence of texts, in order
RECURSIVE Flatten(_)
Flatten(ss) == IF ss = << >> THEN << >> ELSE Head(ss) \o Flatten(Tail(ss))

\* text.split('\n').map(line => line.trim()).filter(line => line.length > 0)
TrimmedLines(lines) ==
  SelectSeq([k \in 1..Len(lines) |-> Trim(lines[k])], LAMBDA l : Len(l) > 0)

formatAnalysisText(lines) ==
  IF lines = << >>
  THEN << >>
  ELSE TrimText([k \in 1..Len(lines) |-> Line(lines[k]).FormatLine])

filterUnwantedContent(lines) ==
  IF lines = << >>
  THEN << >>
  ELSE TrimText(SelectSeq([k \in 1..Len(lines) |-> Line(lines[k]).RemovePatterns],
                          LAMBDA l : Line(l).IsMeaningful))

\* convertToBulletPoints; the text that filterUnwantedContent returns has no
\* empty line, so it is a single segment
convertToBulletPoints(lines) ==
  IF lines = << >>
  THEN << >>
  ELSE LET ls == TrimmedLines(lines)
       IN  Flatten([k \in 1..Len(ls) |-> Line(ls[k]).ConvertLine])

parseAsBulletList(lines) ==
  [type |-> "enhanced_list",
   content |-> [general |-> [k \in 1..Len(lines) |-> Line(lines[k]).BulletItem]]]

\* the body of lines.forEach: st holds sections and currentSection
SectionStep(st, line) ==
  IF Line(line).IsSectionHeader
  THEN [sections |-> IF st.currentSection # NoSection
                     THEN Append(st.sections, st.currentSection)
                     ELSE st.sections,
        currentSection |->
          [type |-> "section", title |-> Line(line).SectionTitle, items |-> << >>]]
  ELSE IF st.currentSection # NoSection
       THEN [st EXCEPT !.currentSection.items = @ \o Line(line).SectionItems]
       ELSE st

parseStructuredSections(lines) ==
  LET st[k \in 0..Len(lines)] ==
        IF k = 0
        THEN [sections |-> << >>, currentSection |-> NoSection]
        ELSE SectionStep(st[k - 1], lines[k])
      last == st[Len(lines)]
      sections == IF last.currentSection # NoSection
                  THEN Append(last.sections, last.currentSection)
                  ELSE last.sections
  IN  [type |-> "sections",
       content |-> [s \in 1..Len(sections) |->
                     [sections[s] EXCEPT !.items =
                       [i \in 1..Len(@) |-> [@[i] EXCEPT !.type = "bullet"]]]]]

\* item.category || 'general'
CategoryOf(item) == IF "category" \in DOMAIN item THEN item.category ELSE "general"

priorityOrder == [high |-> 3, medium |-> 2, low |-> 1]

\* priorityOrder[item.priority] || 1
Rank(item) == IF item.priority \in DOMAIN priorityOrder THEN priorityOrder[item.priority] ELSE 1

\* as Place, before the items of the same rank
PlaceBeforeEquals(s, x) == Cardinality({i \in 1..Len(s) : Rank(s[i]) > Rank(x)})

\* the place of x in the sorted sequence s under the comparator
\* (a, b) => rank(b) - rank(a) of a stable sort: behind every item that
\* does not rank lower
Place(s, x) == Cardinality({i \in 1..Len(s) : Rank(s[i]) >= Rank(x)})

\* Array.prototype.sort with that comparator
SortByPriority(items) ==
  LET sorted[k \in 0..Len(items)] ==
        IF k = 0
        THEN << >>
        ELSE LET s == sorted[k - 1]
                 p == Place(s, items[k])
             IN  SubSeq(s, 1, p) \o <<items[k]>> \o SubSeq(s, p + 1, Len(s))
  IN  sorted[Len(items)]

\* as groupSimilarContent, reading item.category without the default
groupSimilarContentNoDefault(items) ==
  [c \in {CategoryOf(items[k]) : k \in 1..Len(items)} |->
    SortByPriority(SelectSeq(items, LAMBDA item : "category" \in DOMAIN item /\ item.category = c))]

\* the groups object: a function from the categories that occur to the
\* items of the category
groupSimilarContent(items) ==
  [c \in {CategoryOf(items[k]) : k \in 1..Len(items)} |->
    SortByPriority(SelectSeq(items, LAMBDA item : CategoryOf(item) = c))]

parseListContent(lines) ==
  [type |-> "enhanced_list",
   content |-> groupSimilarContent(Flatten([k \in 1..Len(lines) |-> Line(lines[k]).ListItems]))]

\* 'No content available'
NoContentAvailable == 
  <<"N", "o", " ", "c", "o", "n", "t", "e", "n", "t", " ", "a", "v", "a", "i", "l", "a", "b", "l", "e">>

\* 'Content could not be processed'
CouldNotBeProcessed == 
  <<"C", "o", "n", "t", "e", "n", "t", " ", "c", "o", "u", "l", "d", " ", "n", "o", "t", " ", "b", "e", " ", "p", "r", "o", "c", "e", "s", "s", "e", "d">>

IsString(v) == v.kind = "string"

\* the string of one line as a value of JavaScript
StringOf(line) == [kind |-> "string", lines |-> <<line>>]

\* !text
Falsy(v) ==
  \/ v.kind \in {"null", "undefined"}
  \/ v.kind = "number" /\ v.value = 0
  \/ v.kind = "boolean" /\ ~v.value
  \/ v.kind = "string" /\ v.lines = << >>

\* the lines of bulletizedText
BulletizedLines(lines) ==
  TrimmedLines(convertToBulletPoints(filterUnwantedContent(formatAnalysisText(lines))))

listLines(lines) == SelectSeq(lines, LAMBDA l : Line(l).IsListLine)

headerLines(lines) == SelectSeq(lines, LAMBDA l : Line(l).IsHeaderLine)

hasHeaders(lines) == Len(headerLines(lines)) > 0

hasList(lines) == Len(listLines(lines)) > 1

\* as ParserOf, with the test for a list before the test for headers
ParserListFirst(lines) ==
  IF hasList(lines) \/ Len(lines) > 2 THEN "parseListContent"
  ELSE IF hasHeaders(lines) THEN "parseStructuredSections"
  ELSE "parseAsBulletList"

\* as ParserOf, with the number of list lines as the only test for a list
ParserByListOnly(lines) ==
  IF hasHeaders(lines) THEN "parseStructuredSections"
  ELSE IF hasList(lines) THEN "parseListContent"
  ELSE "parseAsBulletList"

\* the function that parseStructuredContent passes the lines to
ParserOf(lines) ==
  IF hasHeaders(lines) THEN "parseStructuredSections"
  ELSE IF hasList(lines) \/ Len(lines) > 2 THEN "parseListContent"
  ELSE "parseAsBulletList"

parseStructuredContent(v) ==
  IF Falsy(v) \/ ~IsString(v)
  THEN [type |-> "text", content |-> IF Falsy(v) THEN StringOf(NoContentAvailable) ELSE v]
  ELSE LET cleanedText == filterUnwantedContent(formatAnalysisText(v.lines))
       IN  IF TrimmedLines(cleanedText) = << >>
           THEN [type |-> "text", content |-> StringOf(CouldNotBeProcessed)]
           ELSE LET lines == TrimmedLines(convertToBulletPoints(cleanedText))
                IN  CASE ParserOf(lines) = "parseStructuredSections" -> parseStructuredSections(lines)
                      [] ParserOf(lines) = "parseListContent" -> parseListContent(lines)
                      [] ParserOf(lines) = "parseAsBulletList" -> parseAsBulletList(lines)

-----------------------------------------------------------------------------
(* TextFormatter: one call of parseStructuredContent *)

FormatInit ==
  /\ lineTable = OfKnownLine
  /\ input \in FormatterInputs
  /\ result = NoResult
  /\ bulletizedLines = << >>
  /\ ChunkerIdle
  /\ ReentrantIdle
  /\ ProcessorIdle
  /\ ManagerIdle

\* the call runs to its return
CallParseStructuredContent ==
  /\ input # NoInput
  /\ result = NoResult
  /\ result' = parseStructuredContent(input)
  /\ bulletizedLines' = IF IsString(input) THEN BulletizedLines(input.lines) ELSE << >>
  /\ UNCHANGED <<input, lineTable>>
  /\ UNCHANGED outsideFormatter

FormatNext == CallParseStructuredContent

FormatSpec == FormatInit /\ [][FormatNext]_vars

\* the call has returned
Parsed == result # NoResult

-----------------------------------------------------------------------------
(* Claims about the formatter *)

\* a short upper-case line that ends in a colon
IsHeaderInput(l) ==
  /\ Len(l) >= 2
  /\ l[Len(l)] = ":"
  /\ \A k \in 1..(Len(l) - 1) : l[k] \in Upper \cup {" "}

\* a line of the form "- ..."
IsBulletInput(l) == Len(l) > 2 /\ l[1] = "-" /\ l[2] = " "

\* the text is a header line followed by bullet lines
HeaderThenBullets ==
  /\ IsString(input)
  /\ Len(input.lines) >= 2
  /\ IsHeaderInput(input.lines[1])
  /\ \A k \in 2..Len(input.lines) : IsBulletInput(input.lines[k])

\* "EXPERIENCE:\n- Built system X\n- Led team Y"
ExperienceExample == <<
  <<"E", "X", "P", "E", "R", "I", "E", "N", "C", "E", ":">>,
  <<"-", " ", "B", "u", "i", "l", "t", " ", "s", "y", "s", "t", "e", "m", " ", "X">>,
  <<"-", " ", "L", "e", "d", " ", "t", "e", "a", "m", " ", "Y">> >>

\* C12: a header line followed by bullet lines is returned in the Sectioned
\* form, as one section that is titled by the header without its colon and
\* holds the bullets in input order; for the example of the specification the
\* two items have priority high.
HeaderDetection ==
  (Parsed /\ HeaderThenBullets) =>
    /\ result.type = "sections"
    /\ Len(result.content) = 1
    /\ result.content[1].title = SubSeq(input.lines[1], 1, Len(input.lines[1]) - 1)
    /\ Len(result.content[1].items) = Len(input.lines) - 1
    /\ \A k \in 1..(Len(input.lines) - 1) :
         result.content[1].items[k].content = SubSeq(input.lines[k + 1], 3, Len(input.lines[k + 1]))
    /\ input.lines = ExperienceExample =>
         \A k \in 1..2 : result.content[1].items[k].priority = "high"

\* the items of an enhanced_list result, group by group
GroupItems(r) ==
  UNION {{r.content[c][k] : k \in 1..Len(r.content[c])} : c \in DOMAIN r.content}

\* the three forms of a result: sections; items grouped by category; a flat
\* list of bullets
IsSectioned(r) == r.type = "sections"

IsEnhancedList(r) ==
  /\ r.type = "enhanced_list"
  /\ \A item \in GroupItems(r) : item.type \in {"listItem", "description"}

IsBulletFallback(r) ==
  /\ r.type = "enhanced_list"
  /\ DOMAIN r.content = {"general"}
  /\ \A k \in 1..Len(r.content.general) : r.content.general[k].type = "bullet"

\* a string was parsed and something was left of it after cleaning
Classified == Parsed /\ IsString(input) /\ bulletizedLines # << >>

HasHeaderLine == \E k \in 1..Len(bulletizedLines) : Line(bulletizedLines[k]).IsHeaderLine

ListLineCount == Cardinality({k \in 1..Len(bulletizedLines) : Line(bulletizedLines[k]).IsListLine})

\* C13: a cleaned text that is not empty is given exactly one of the forms
\* Sectioned, Enhanced-list and Bullet-fallback, and the test for headers
\* comes first: the form is Sectioned exactly when a line matches a header
\* pattern, however many list lines there are.
ClassificationOrder ==
  Classified =>
    /\ Cardinality({f \in {"sectioned", "enhanced", "fallback"} :
         \/ f = "sectioned" /\ IsSectioned(result)
         \/ f = "enhanced" /\ IsEnhancedList(result)
         \/ f = "fallback" /\ IsBulletFallback(result)}) = 1
    /\ HasHeaderLine <=> IsSectioned(result)

\* a text with a header line and more than one list line was parsed into
\* sections
ClassificationOrderWitness ==
  /\ Classified
  /\ HasHeaderLine
  /\ ListLineCount > 1
  /\ IsSectioned(result)
  /\ Len(result.content) > 0

\* a flat list with one item for each line
IsFlatList(r) == IsBulletFallback(r) /\ Len(r.content.general) = Len(bulletizedLines)

\* C14 as stated: without a header line the form is Enhanced-list only when
\* more than one line matches the list pattern, and Bullet-fallback, one
\* item for each line, otherwise, whatever the number of lines.
EnhancedListThreshold ==
  (Classified /\ ~HasHeaderLine) =>
    IF ListLineCount > 1 THEN IsEnhancedList(result) ELSE IsFlatList(result)

\* C14: without a header line the form is Enhanced-list when more than one
\* line matches the list pattern or the text has more than two lines, and
\* Bullet-fallback, one item for each line, otherwise.
EnhancedListOrLongText ==
  (Classified /\ ~HasHeaderLine) =>
    IF ListLineCount > 1 \/ Len(bulletizedLines) > 2
    THEN IsEnhancedList(result)
    ELSE IsFlatList(result)

\* a text of more than two lines without a header and with at most one list
\* line was parsed into an Enhanced-list
EnhancedListWitness ==
  /\ Classified
  /\ ~HasHeaderLine
  /\ ListLineCount <= 1
  /\ Len(bulletizedLines) > 2
  /\ IsEnhancedList(result)

\* C15: for the empty string, null, undefined and every value that is not a
\* string the result is the placeholder of type text with the content
\* 'No content available'; for a string of which cleaning leaves nothing the
\* result is a placeholder of type text as well.
EmptyInputPlaceholder ==
  Parsed =>
    /\ (~IsString(input) \/ input.lines = << >>) =>
         result = [type |-> "text", content |-> StringOf(NoContentAvailable)]
    /\ (IsString(input) /\ bulletizedLines = << >>) =>
         /\ result.type = "text"
         /\ result.content \in {StringOf(NoContentAvailable), StringOf(CouldNotBeProcessed)}

\* the items that the lines make, in input order
ItemsInOrder == Flatten([k \in 1..Len(bulletizedLines) |-> Line(bulletizedLines[k]).ListItems])

\* the items of s that have priority p, in the order of s
WithPriority(s, p) == SelectSeq(s, LAMBDA item : item.priority = p)

\* C16: in an Enhanced-list every group holds its items of priority high,
\* then those of priority medium, then those of priority low, and the items
\* of one priority are in input order.
PriorityOrdering ==
  (Classified /\ IsEnhancedList(result)) =>
    \A c \in DOMAIN result.content :
      LET inOrder == SelectSeq(ItemsInOrder, LAMBDA item : CategoryOf(item) = c)
      IN  result.content[c] = WithPriority(inOrder, "high")
                              \o WithPriority(inOrder, "medium")
                              \o WithPriority(inOrder, "low")

\* an Enhanced-list with a group in which the sort moved an item and which
\* holds two different items of one priority
PriorityOrderingWitness ==
  /\ Classified
  /\ IsEnhancedList(result)
  /\ \E c \in DOMAIN result.content :
       LET g == result.content[c]
           inOrder == SelectSeq(ItemsInOrder, LAMBDA item : CategoryOf(item) = c)
       IN  /\ g # inOrder
           /\ \E i, j \in 1..Len(g) : g[i] # g[j] /\ g[i].priority = g[j].priority

\* the words of a string in lower case: its longest runs of letters, digits
\* and underscores; w is the word under way at position i
RECURSIVE WordsFrom(_, _, _)
WordsFrom(t, i, w) ==
  LET done == IF w = << >> THEN {} ELSE {w}
  IN  IF i > Len(t) THEN done
      ELSE IF t[i] \in WordChar THEN WordsFrom(t, i + 1, Append(w, ToLower(t[i])))
      ELSE done \cup WordsFrom(t, i + 1, << >>)

WordsOf(t) == WordsFrom(t, 1, << >>)

\* the vocabulary of action and impact
ActionVocabulary == {
  <<"a", "c", "h", "i", "e", "v", "e", "d">>,
  <<"i", "n", "c", "r", "e", "a", "s", "e", "d">>,
  <<"i", "m", "p", "r", "o", "v", "e", "d">>,
  <<"r", "e", "d", "u", "c", "e", "d">>,
  <<"l", "e", "d">>,
  <<"m", "a", "n", "a", "g", "e", "d">>,
  <<"d", "e", "v", "e", "l", "o", "p", "e", "d">>,
  <<"c", "r", "e", "a", "t", "e", "d">>,
  <<"d", "e", "s", "i", "g", "n", "e", "d">>,
  <<"i", "m", "p", "l", "e", "m", "e", "n", "t", "e", "d">>,
  <<"o", "p", "t", "i", "m", "i", "z", "e", "d">>,
  <<"s", "t", "r", "e", "a", "m", "l", "i", "n", "e", "d">>,
  <<"d", "e", "l", "i", "v", "e", "r", "e", "d">>,
  <<"e", "x", "e", "c", "u", "t", "e", "d">>,
  <<"l", "a", "u", "n", "c", "h", "e", "d">>,
  <<"b", "u", "i", "l", "t">> }

\* the softer vocabulary of competency
CompetencyVocabulary == {
  <<"e", "x", "p", "e", "r", "i", "e", "n", "c", "e">>,
  <<"s", "k", "i", "l", "l", "s">>,
  <<"k", "n", "o", "w", "l", "e", "d", "g", "e">>,
  <<"p", "r", "o", "f", "i", "c", "i", "e", "n", "t">>,
  <<"f", "a", "m", "i", "l", "i", "a", "r">>,
  <<"w", "o", "r", "k", "e", "d">>,
  <<"a", "s", "s", "i", "s", "t", "e", "d">>,
  <<"p", "a", "r", "t", "i", "c", "i", "p", "a", "t", "e", "d">>,
  <<"c", "o", "l", "l", "a", "b", "o", "r", "a", "t", "e", "d">>,
  <<"s", "u", "p", "p", "o", "r", "t", "e", "d">> }

\* every item of a result
AllItems(r) ==
  IF r.type = "sections"
  THEN UNION {{r.content[k].items[i] : i \in 1..Len(r.content[k].items)} : k \in 1..Len(r.content)}
  ELSE IF r.type = "enhanced_list" THEN GroupItems(r)
  ELSE {}

\* C17: the priority of every item is high if its content has a word of the
\* action vocabulary, else medium if it has a word of the competency
\* vocabulary, else low.
PriorityAnnotation ==
  Parsed =>
    \A item \in AllItems(result) :
      item.priority =
        IF WordsOf(item.content) \cap ActionVocabulary # {} THEN "high"
        ELSE IF WordsOf(item.content) \cap CompetencyVocabulary # {} THEN "medium"
        ELSE "low"

\* a result with items of two priorities, one of them with words of both
\* vocabularies
PriorityAnnotationWitness ==
  /\ Parsed
  /\ \E a, b \in AllItems(result) :
       /\ WordsOf(a.content) \cap ActionVocabulary # {}
       /\ WordsOf(a.content) \cap CompetencyVocabulary # {}
       /\ a.priority = "high"
       /\ b.priority \in {"medium", "low"}

\* how often the item x occurs in the sequence s
Occurrences(s, x) == Cardinality({k \in 1..Len(s) : s[k] = x})

\* C30: in an Enhanced-list the groups are a partition of the items that
\* the input lines make: the groups are named by the categories that occur,
\* every item occurs in the group of its category ("general" without one) as
\* often as the lines make it and in no other group, and a group holds
\* nothing else
GroupingIsPartition ==
  (Classified /\ IsEnhancedList(result)) =>
    /\ DOMAIN result.content = {CategoryOf(ItemsInOrder[k]) : k \in 1..Len(ItemsInOrder)}
    /\ \A c \in DOMAIN result.content :
         /\ \A k \in 1..Len(ItemsInOrder) :
              Occurrences(result.content[c], ItemsInOrder[k])
                = IF CategoryOf(ItemsInOrder[k]) = c
                  THEN Occurrences(ItemsInOrder, ItemsInOrder[k])
                  ELSE 0
         /\ \A k \in 1..Len(result.content[c]) :
              Occurrences(ItemsInOrder, result.content[c][k]) > 0

\* an Enhanced-list of two groups or more, one of them "general" and holding
\* an item that has no category of its own
GroupingIsPartitionWitness ==
  /\ Classified
  /\ IsEnhancedList(result)
  /\ Cardinality(DOMAIN result.content) >= 2
  /\ "general" \in DOMAIN result.content
  /\ \E k \in 1..Len(result.content["general"]) :
       "category" \notin DOMAIN result.content["general"][k]

\* the items of the sections of a Sectioned result, section after section
ItemsOfSections(r) == Flatten([s \in 1..Len(r.content) |-> r.content[s].items])

\* the items of the sections that the first k lines make
ItemsUpTo(k) == ItemsOfSections(parseStructuredSections(SubSeq(bulletizedLines, 1, k)))

\* a bullet or numbered line that is not taken for a header
IsBulletLine(l) == Test(isBullet, l, FALSE) /\ ~Line(l).IsSectionHeader

\* C29: when the input is classified Sectioned, every bullet or numbered line
\* of the bulletized input becomes exactly one Item of exactly one section, in
\* input order, also a bullet line that comes before the first header line:
\* the line adds its one Item behind the Items of the lines before it
SectionsKeepBullets ==
  (Parsed /\ result.type = "sections") =>
    /\ result = parseStructuredSections(bulletizedLines)
    /\ \A k \in 1..Len(bulletizedLines) :
         IsBulletLine(bulletizedLines[k]) =>
           /\ Len(Line(bulletizedLines[k]).SectionItems) = 1
           /\ ItemsUpTo(k) = ItemsUpTo(k - 1) \o Line(bulletizedLines[k]).SectionItems

-----------------------------------------------------------------------------
(* splitTextAsyncChunks: two calls that interleave *)

\* the longest periodic text has 2 * MaxPairs characters
MaxPairs == 3

Calls == {1, 2}

ReentrantTexts == {Repeat(p, n) : p \in [1..2 -> {"a", " "}], n \in 0..MaxPairs}

ReentrantArgs == [text : ReentrantTexts, chunkSize : 1..2, overlap : 0..1]

\* the locals of a call before the call is made
NoFrame == [start |-> -1, chunks |-> << >>]

\* every call shares one set of locals
FrameShared(c) == 1

\* const chunks = []; let start = 0; are locals: each call has its own
Frame(c) == c

\* the chunks of one call that runs alone, from cursor s with chunks cs
RECURSIVE ChunksFrom(_, _, _, _, _)
ChunksFrom(t, size, ov, s, cs) ==
  IF s >= Len(t)
  THEN FilterNonEmpty(cs)
  ELSE LET e == ChooseEnd(t, s, size)
           chunk == Trim(Substring(t, s, e))
       IN  ChunksFrom(t, size, ov, Advance(s, e, ov),
                      IF chunk # << >> THEN Append(cs, chunk) ELSE cs)

splitTextAsyncChunks(a) == ChunksFrom(a.text, a.chunkSize, a.overlap, 0, << >>)

ReentrantInit ==
  /\ callArgs \in [Calls -> ReentrantArgs]
  /\ frames = [c \in Calls |-> NoFrame]
  /\ callPc = [c \in Calls |-> "call"]
  /\ running = 0
  /\ returned = [c \in Calls |-> << >>]
  /\ ChunkerIdle
  /\ FormatterIdle
  /\ ProcessorIdle
  /\ ManagerIdle

\* the call is made while no other code runs: its locals are initialized
InvokeCall(c) ==
  /\ running = 0
  /\ callPc[c] = "call"
  /\ frames' = [frames EXCEPT ![Frame(c)] = [start |-> 0, chunks |-> << >>]]
  /\ callPc' = [callPc EXCEPT ![c] = "loop"]
  /\ running' = c
  /\ UNCHANGED <<callArgs, returned>>
  /\ UNCHANGED outsideReentrant

\* one pass through the body of while (start < text.length), up to the await
LoopIteration(c) ==
  /\ running = c
  /\ callPc[c] = "loop"
  /\ frames[Frame(c)].start < Len(callArgs[c].text)
  /\ LET a == callArgs[c]
         f == frames[Frame(c)]
         e == ChooseEnd(a.text, f.start, a.chunkSize)
         chunk == Trim(Substring(a.text, f.start, e))
         cs == IF chunk # << >> THEN Append(f.chunks, chunk) ELSE f.chunks
         yields == Yields("async", cs)
     IN  /\ frames' = [frames EXCEPT ![Frame(c)] =
                         [start |-> Advance(f.start, e, a.overlap), chunks |-> cs]]
         /\ callPc' = [callPc EXCEPT ![c] = IF yields THEN "yield" ELSE "loop"]
         /\ running' = IF yields THEN 0 ELSE c
  /\ UNCHANGED <<callArgs, returned>>
  /\ UNCHANGED outsideReentrant

\* the timer of the await fires while no other code runs: the call goes on
TimerFires(c) ==
  /\ running = 0
  /\ callPc[c] = "yield"
  /\ callPc' = [callPc EXCEPT ![c] = "loop"]
  /\ running' = c
  /\ UNCHANGED <<callArgs, frames, returned>>
  /\ UNCHANGED outsideReentrant

\* the loop is left (while condition or break) and the chunks are returned
ReturnChunks(c) ==
  /\ running = c
  /\ callPc[c] = "loop"
  /\ frames[Frame(c)].start >= Len(callArgs[c].text)
  /\ returned' = [returned EXCEPT ![c] = FilterNonEmpty(frames[Frame(c)].chunks)]
  /\ callPc' = [callPc EXCEPT ![c] = "done"]
  /\ running' = 0
  /\ UNCHANGED <<callArgs, frames>>
  /\ UNCHANGED outsideReentrant

ReentrantNext ==
  \E c \in Calls :
    InvokeCall(c) \/ LoopIteration(c) \/ TimerFires(c) \/ ReturnChunks(c)

ReentrantSpec == ReentrantInit /\ [][ReentrantNext]_vars

-----------------------------------------------------------------------------
(* Claims about interleaved calls *)

\* the step is taken by call c: c is on the stack before it or is put there
Acting(c) == running = c \/ (running = 0 /\ running' = c)

\* a step of one call leaves the locals and the result of the other alone
NoSharedState ==
  \A c \in Calls :
    Acting(c) =>
      \A d \in Calls \ {c} : frames'[d] = frames[d] /\ returned'[d] = returned[d]

\* every call that returned, returned what it returns when run alone
SameAsAlone ==
  \A c \in Calls :
    callPc[c] = "done" => returned[c] = splitTextAsyncChunks(callArgs[c])

\* C18: two interleaved calls of splitTextAsyncChunks each return the chunk
\* sequence they return when run alone, and no step of one call changes the
\* locals or the result of the other
Reentrancy == []SameAsAlone /\ [][NoSharedState]_vars

\* both calls returned, each after an await during which the other one ran,
\* and with different results
ReentrancyWitness ==
  /\ \A c \in Calls : callPc[c] = "done" /\ Len(returned[c]) >= 5
  /\ returned[1] # returned[2]

-----------------------------------------------------------------------------
(* C28 *)

\* what the chunker i returns for a text: the early return of the worker and
\* server chunkers, else the loop
ChunksOf(i, t, size, ov) ==
  IF ShortCircuits(i, t, size) THEN <<t>> ELSE ChunksFrom(t, size, ov, 0, << >>)

\* C28: the worker, server and fallback chunkers return the same sequence of
\* chunks for every text, also the empty text and a text of white space or
\* with white space around it that is no longer than chunkSize, and for every
\* valid chunkSize and overlap
ChunkersAgree ==
  (Done /\ Valid) =>
    \A i \in Impls : chunks = ChunksOf(i, text, chunkSize, overlap)

-----------------------------------------------------------------------------
(* OptimizedDocumentProcessor: the processor, its workers and its calls *)

\* the longest array of files given to processMultipleFiles
MaxFiles == 3

\* the number of processFile calls made one by one
MaxCalls == 2

\* the number of Worker objects one run creates
MaxWorkers == 2

\* const maxSize = 50 * 1024 * 1024
maxSize == 50 * 1024 * 1024

pdfType == "application/pdf"

docxType == "application/vnd.openxmlformats-officedocument.wordprocessingml.document"

\* the files: name stands for the lower-cased extension of file.name
FileKinds ==
  { [size |-> 1, name |-> "pdf", type |-> pdfType],
    [size |-> 1, name |-> "bin", type |-> docxType],
    [size |-> 0, name |-> "pdf", type |-> pdfType],
    [size |-> maxSize + 1, name |-> "doc", type |-> ""],
    [size |-> 1, name |-> "txt", type |-> "text/plain"] }

validateFile(file) ==
  LET tooBig == IF file.size > maxSize THEN <<"size">> ELSE << >>
      empty == IF file.size = 0 THEN <<"empty">> ELSE << >>
      isPDF == file.type = pdfType \/ file.name = "pdf"
      isDOCX == file.type = docxType \/ file.name \in {"docx", "doc"}
      noType == IF ~isPDF /\ ~isDOCX THEN <<"type">> ELSE << >>
      errors == tooBig \o empty \o noType
  IN  [ isValid |-> Len(errors) = 0,
        errors |-> errors,
        fileType |-> IF isPDF THEN "pdf" ELSE IF isDOCX THEN "docx" ELSE "unknown" ]

\* the mutable state as one value, so that a handler is a function of it
Processor ==
  [ worker |-> worker, processingQueue |-> processingQueue,
    requestId |-> requestId, workerObjects |-> workerObjects,
    callState |-> callState, batchState |-> batchState ]

CallIds == DOMAIN callState

WorkerIds == DOMAIN workerObjects

\* the outcome of processFile
Outcome(by, ok) == [by |-> by, ok |-> ok]

\* catch (workerError) { throw workerError }: no fallback
CatchRethrows(st, c, why) ==
  [ st EXCEPT !.callState[c].pc = "rejected",
              !.callState[c].failure = why,
              !.callState[c].outcome = Outcome("worker", FALSE) ]

\* catch (workerError) { return await this.processFileDirectly(...) }
CatchWorkerError(st, c, why) ==
  [ st EXCEPT !.callState[c].pc = "direct",
              !.callState[c].failure = why ]

\* reject of initializeWorker's promise: nothing happens when the promise is
\* settled already
RejectInitialization(st, c, why) ==
  IF st.callState[c].pc = "init"
  THEN CatchWorkerError(st, c, why)
  ELSE st

\* reject of the promise of the request of processFileWithWorker: nothing
\* happens when the promise is settled already
Reject(st, c, why) ==
  IF st.callState[c].pc = "worker"
  THEN CatchWorkerError(st, c, why)
  ELSE st

\* resolve of processFileWithWorker's promise
Resolve(st, c) ==
  IF st.callState[c].pc = "worker"
  THEN [ st EXCEPT !.callState[c].pc = "resolved",
                   !.callState[c].outcome = Outcome("worker", TRUE) ]
  ELSE st

\* the calls whose request has the id r
CallsOf(st, r) == {c \in DOMAIN st.callState : st.callState[c].requestId = r}

RECURSIVE RejectAll(_, _, _)
RejectAll(st, cs, why) ==
  IF cs = {}
  THEN st
  ELSE LET c == CHOOSE x \in cs : \A y \in cs : x <= y
       IN  RejectAll(Reject(st, c, why), cs \ {c}, why)

RECURSIVE ResolveAll(_, _)
ResolveAll(st, cs) ==
  IF cs = {}
  THEN st
  ELSE LET c == CHOOSE x \in cs : \A y \in cs : x <= y
       IN  ResolveAll(Resolve(st, c), cs \ {c})

\* processFileWithWorker after initializeWorker returned: the request gets its
\* id and its entry in the queue, and the file is being read
RegisterRequest(st, c) ==
  IF st.callState[c].pc # "init"
  THEN st
  ELSE LET r == st.requestId + 1
       IN  [ st EXCEPT !.requestId = r,
                       !.processingQueue = @ \cup {r},
                       !.callState[c].pc = "worker",
                       !.callState[c].requestId = r,
                       !.callState[c].exec = "reading" ]

\* initializeWorker, up to its return or its first wait
initializeWorker(st, c, canWork) ==
  IF st.worker # 0
  THEN RegisterRequest(st, c)
  ELSE IF ~canWork
  THEN RejectInitialization(st, c, "unsupported")
  ELSE LET w == Len(st.workerObjects) + 1
       IN  [ st EXCEPT !.worker = w,
                       !.workerObjects = Append(@, NewWorker(c)) ]

\* processFile, up to its first wait
processFile(st, c, file, onProgress, canWork) ==
  IF ~validateFile(file).isValid
  THEN [ st EXCEPT !.callState[c].pc = "rejected",
                   !.callState[c].onProgress = onProgress,
                   !.callState[c].outcome = Outcome("validation", FALSE) ]
  ELSE initializeWorker(
         [ st EXCEPT !.callState[c].pc = "init",
                     !.callState[c].onProgress = onProgress ],
         c, canWork)

\* handleWorkerMessage with this.processingQueue.clear() for
\* this.processingQueue.delete(requestId)
handleWorkerMessageClearsQueue(st, type, r) ==
  IF r \notin st.processingQueue
  THEN st
  ELSE IF type = "progress"
  THEN st
  ELSE LET settled == IF type = "success"
                      THEN ResolveAll(st, CallsOf(st, r))
                      ELSE RejectAll(st, CallsOf(st, r), "errorReply")
       IN  [settled EXCEPT !.processingQueue = {}]

\* handleWorkerMessage for a reply of the type 'progress', 'success' or
\* 'error': request.onProgress and globalProgressCallback are not of the processor
handleWorkerMessage(st, type, r) ==
  IF r \notin st.processingQueue
  THEN st
  ELSE IF type = "progress"
  THEN st
  ELSE LET settled == IF type = "success"
                      THEN ResolveAll(st, CallsOf(st, r))
                      ELSE RejectAll(st, CallsOf(st, r), "errorReply")
       IN  [settled EXCEPT !.processingQueue = @ \ {r}]

\* handleWorkerError without this.worker = null
handleWorkerErrorKeepsWorker(st) ==
  LET pending == UNION {CallsOf(st, r) : r \in st.processingQueue}
      rejected == RejectAll(st, pending, "crash")
  IN  [rejected EXCEPT !.processingQueue = {}]

\* handleWorkerError
handleWorkerError(st) ==
  LET pending == UNION {CallsOf(st, r) : r \in st.processingQueue}
      rejected == RejectAll(st, pending, "crash")
  IN  [rejected EXCEPT !.processingQueue = {}, !.worker = 0]

\* testHandler of the worker w for a reply of the type 'worker_ready' or
\* 'error': this.worker.removeEventListener throws when this.worker is null
testHandler(st, w, type) ==
  LET c == st.workerObjects[w].listener
      cleared == [st EXCEPT !.workerObjects[w].timer = FALSE]
      removed == IF st.worker = w
                 THEN [cleared EXCEPT !.workerObjects[w].listener = 0]
                 ELSE cleared
  IN  IF c = 0
      THEN st
      ELSE IF st.worker = 0
      THEN cleared
      ELSE IF type = "error"
      THEN RejectInitialization([removed EXCEPT !.worker = 0], c, "initError")
      ELSE RegisterRequest(removed, c)

\* the catch of the executor of processFileWithWorker
ExecutorCatch(st, c, why) ==
  LET gone == [ st EXCEPT !.processingQueue = @ \ {st.callState[c].requestId},
                          !.callState[c].exec = "over" ]
  IN  Reject(gone, c, why)

\* postMessage cannot clone a function: options.onProgress goes into the message
PostThrows(st, c) == st.callState[c].onProgress

\* the executor of processFileWithWorker after the file was read
AfterRead(st, c) ==
  LET w == st.worker
      r == st.callState[c].requestId
  IN  IF w = 0
      THEN ExecutorCatch(st, c, "unavailable")
      ELSE IF PostThrows(st, c)
      THEN ExecutorCatch(st, c, "send")
      ELSE [ st EXCEPT !.callState[c].exec = "sent",
                       !.workerObjects[w].posted = @ \cup {r},
                       !.workerObjects[w].received =
                          @ \cup {[requestId |-> r, ready |-> st.workerObjects[w].ready]} ]

\* cleanup
cleanup(st) ==
  LET w == st.worker
      terminated == IF w = 0
                    THEN st
                    ELSE [ st EXCEPT !.workerObjects[w].live = FALSE,
                                     !.workerObjects[w].test = FALSE,
                                     !.workerObjects[w].posted = {},
                                     !.workerObjects[w].started = {},
                                     !.worker = 0 ]
  IN  [terminated EXCEPT !.processingQueue = {}]

\* the timeout of the initialization of the worker w fires
initializationTimeout(st, w) ==
  RejectInitialization([st EXCEPT !.worker = 0, !.workerObjects[w].timer = FALSE],
                       st.workerObjects[w].owner, "timeout")

\* const maxConcurrent = options.maxConcurrent || 2
MaxConcurrent == IF maxConcurrent = 0 THEN 2 ELSE maxConcurrent

\* files.slice(i, i + maxConcurrent), as the calls of its files
Batch(i) == {c \in DOMAIN files : i < c /\ c <= i + MaxConcurrent}

\* batch.map(async (file, batchIndex) => this.processFile(file, {...}))
RECURSIVE MapProcessFile(_, _)
MapProcessFile(st, cs) ==
  IF cs = {}
  THEN st
  ELSE LET c == CHOOSE x \in cs : \A y \in cs : x <= y
       IN  MapProcessFile(processFile(st, c, files[c], TRUE, supported), cs \ {c})

\* Promise.all waits for one promise only
AnyResolved(st, cs) == \E c \in cs : st.callState[c].pc = "resolved"

\* Promise.all(batchPromises) is fulfilled
AllResolved(st, cs) == \A c \in cs : st.callState[c].pc = "resolved"

\* Promise.all(batchPromises) is rejected
SomeRejected(st, cs) == \E c \in cs : st.callState[c].pc = "rejected"

OutcomesOf(st, i) ==
  [k \in 1..Cardinality(Batch(i)) |-> st.callState[i + k].outcome]

\* processMultipleFiles from the head of its loop, and from its await, up to
\* its next wait
RECURSIVE Loop(_)
RECURSIVE Continue(_)
Loop(st) ==
  IF st.batchState.i < Len(files)
  THEN Continue(MapProcessFile([st EXCEPT !.batchState.pc = "await"],
                               Batch(st.batchState.i)))
  ELSE [st EXCEPT !.batchState.pc = "returned"]

Continue(st) ==
  LET i == st.batchState.i
  IN  IF st.batchState.pc # "await"
      THEN st
      ELSE IF SomeRejected(st, Batch(i))
      THEN [st EXCEPT !.batchState.pc = "threw"]
      ELSE IF AllResolved(st, Batch(i))
      THEN Loop([ st EXCEPT !.batchState.results = @ \o OutcomesOf(st, i),
                            !.batchState.i = i + MaxConcurrent ])
      ELSE st

\* the handler ran, and with it the code that waited for what it settled
Becomes(handled) ==
  LET st == Continue(handled)
  IN  /\ Len(st.workerObjects) <= MaxWorkers
      /\ worker' = st.worker
      /\ processingQueue' = st.processingQueue
      /\ requestId' = st.requestId
      /\ workerObjects' = st.workerObjects
      /\ callState' = st.callState
      /\ batchState' = st.batchState
      /\ UNCHANGED <<supported, files, maxConcurrent>>
      /\ UNCHANGED outsideProcessor

\* processFile(file, options) is called: c is the number of the call
CallProcessFile(c) ==
  /\ batchState.pc = "idle"
  /\ callState[c].pc = "new"
  /\ \A d \in 1..(c - 1) : callState[d].pc # "new"
  /\ \E file \in FileKinds, onProgress \in BOOLEAN :
       Becomes(processFile(Processor, c, file, onProgress, supported))

\* processMultipleFiles(files, options) is called
CallProcessMultipleFiles ==
  /\ batchState.pc = "call"
  /\ Becomes(Loop(Processor))

\* the initialization timeout of a worker fires
InitializationTimeout(w) ==
  /\ workerObjects[w].timer
  /\ Becomes(initializationTimeout(Processor, w))

\* a worker answers TEST_WORKER
WorkerReady(w) ==
  /\ workerObjects[w].live
  /\ workerObjects[w].test
  /\ Becomes(testHandler([ Processor EXCEPT !.workerObjects[w].test = FALSE,
                                            !.workerObjects[w].ready = TRUE ],
                         w, "ready"))

\* self.onerror of a worker sends an 'error' that carries no request id
WorkerErrorReply(w) ==
  /\ workerObjects[w].live
  /\ workerObjects[w].listener # 0
  /\ Becomes(testHandler(Processor, w, "error"))

\* the worker w has answered the request r
Answered(st, w, r) ==
  [ st EXCEPT !.workerObjects[w].posted = @ \ {r},
              !.workerObjects[w].started = @ \ {r} ]

\* a worker takes a request from its queue of messages, which it does after
\* it answered TEST_WORKER, and sends the first 'progress'
WorkerProgress(w, r) ==
  /\ workerObjects[w].live
  /\ ~workerObjects[w].test
  /\ r \in workerObjects[w].posted \ workerObjects[w].started
  /\ Becomes(handleWorkerMessage([Processor EXCEPT !.workerObjects[w].started = @ \cup {r}],
                                 "progress", r))

\* a worker answers a request with 'success'
WorkerSuccess(w, r) ==
  /\ workerObjects[w].live
  /\ r \in workerObjects[w].started
  /\ Becomes(handleWorkerMessage(Answered(Processor, w, r), "success", r))

\* a worker answers a request with 'error': onmessage, then testHandler
WorkerFailure(w, r) ==
  /\ workerObjects[w].live
  /\ r \in workerObjects[w].started
  /\ Becomes(testHandler(handleWorkerMessage(Answered(Processor, w, r), "error", r),
                         w, "error"))

\* worker.onerror
WorkerCrash(w) ==
  /\ workerObjects[w].live
  /\ Becomes(handleWorkerError(Processor))

\* readFileWithProgress resolves
ReadDone(c) ==
  /\ callState[c].exec = "reading"
  /\ Becomes(AfterRead(Processor, c))

\* readFileWithProgress rejects
ReadFail(c) ==
  /\ callState[c].exec = "reading"
  /\ Becomes(ExecutorCatch(Processor, c, "read"))

\* processFileDirectly settles
DirectDone(c) ==
  /\ callState[c].pc = "direct"
  /\ \E ok \in BOOLEAN :
       Becomes([ Processor EXCEPT
                   !.callState[c].pc = IF ok THEN "resolved" ELSE "rejected",
                   !.callState[c].outcome = Outcome("direct", ok) ])

\* cleanup() is called
Cleanup ==
  /\ worker # 0 \/ processingQueue # {}
  /\ Becomes(cleanup(Processor))

WorkerEvent ==
  \E w \in WorkerIds :
    \/ InitializationTimeout(w)
    \/ WorkerReady(w)
    \/ WorkerErrorReply(w)
    \/ WorkerCrash(w)

WorkerReply ==
  \E w \in WorkerIds : \E r \in 1..requestId :
    WorkerProgress(w, r) \/ WorkerSuccess(w, r) \/ WorkerFailure(w, r)

CallEvent == \E c \in CallIds : ReadDone(c) \/ ReadFail(c) \/ DirectDone(c)

ProcessorInit ==
  /\ worker = 0
  /\ processingQueue = {}
  /\ requestId = 0
  /\ workerObjects = << >>
  /\ supported \in BOOLEAN
  /\ files = << >>
  /\ callState = [c \in 1..MaxCalls |-> NoCall]
  /\ maxConcurrent = 0
  /\ batchState = NoBatch
  /\ ChunkerIdle
  /\ FormatterIdle
  /\ ReentrantIdle
  /\ ManagerIdle

ProcessorNext ==
  \/ \E c \in CallIds : CallProcessFile(c)
  \/ WorkerEvent
  \/ WorkerReply
  \/ CallEvent
  \/ Cleanup

ProcessorSpec == ProcessorInit /\ [][ProcessorNext]_vars

\* a live worker answers what it received, the FileReader ends its read and
\* the timer of the initialization fires; nothing is assumed about crashes,
\* cleanup() and new calls
ProcessorFairness ==
  /\ \A w \in 1..MaxWorkers :
       /\ WF_vars(w \in WorkerIds /\ WorkerReady(w))
       /\ WF_vars(w \in WorkerIds /\ InitializationTimeout(w))
       /\ \A r \in 1..MaxCalls :
            /\ WF_vars(w \in WorkerIds /\ WorkerProgress(w, r))
            /\ WF_vars(w \in WorkerIds /\ (WorkerSuccess(w, r) \/ WorkerFailure(w, r)))
  /\ \A c \in 1..MaxCalls :
       WF_vars(ReadDone(c) \/ ReadFail(c))

ProcessorLiveSpec == ProcessorSpec /\ ProcessorFairness

\* the arrays of files given to processMultipleFiles: of a file that passes
\* validateFile and one that does not
BatchFiles ==
  UNION {[1..n -> {f \in FileKinds : f.size = 1 /\ f.name # "bin"}] : n \in 0..MaxFiles}

BatchInit ==
  /\ worker = 0
  /\ processingQueue = {}
  /\ requestId = 0
  /\ workerObjects = << >>
  /\ supported \in BOOLEAN
  /\ files \in BatchFiles
  /\ callState = [c \in DOMAIN files |-> NoCall]
  /\ maxConcurrent \in 0..MaxFiles
  /\ batchState = [NoBatch EXCEPT !.pc = "call"]
  /\ ChunkerIdle
  /\ FormatterIdle
  /\ ReentrantIdle
  /\ ManagerIdle

BatchNext ==
  \/ CallProcessMultipleFiles
  \/ WorkerEvent
  \/ CallEvent

BatchSpec == BatchInit /\ [][BatchNext]_vars

-----------------------------------------------------------------------------
(* Claims about the processor *)

\* the processFile call c has settled
Settled(c) == callState[c].pc \in {"resolved", "rejected"}

\* the worker path of the call c was left with an error
WorkerPathFailed(c) == callState[c].failure # "none"

\* a call whose worker path failed runs direct processing, and once it has
\* settled its outcome is the one of direct processing; no call has the
\* failure of the worker as its outcome
FallsBack ==
  \A c \in CallIds :
    /\ WorkerPathFailed(c) =>
         /\ callState[c].pc \in {"direct", "resolved", "rejected"}
         /\ Settled(c) => callState[c].outcome.by = "direct"
    /\ Settled(c) => callState[c].outcome # Outcome("worker", FALSE)

\* a step in which a call leaves the worker path either resolves it with the
\* result of the worker or starts direct processing, and a step that ends
\* direct processing settles the call with the outcome of direct processing
LeavesWorkerPath ==
  \A c \in CallIds :
    /\ (callState[c].pc \in {"init", "worker"} /\ callState'[c].pc \notin {"init", "worker"}) =>
         \/ callState'[c].pc = "direct" /\ callState'[c].failure # "none"
         \/ callState'[c].pc = "resolved" /\ callState'[c].outcome = Outcome("worker", TRUE)
    /\ (callState[c].pc = "direct" /\ callState'[c].pc # "direct") =>
         Settled(c)' /\ callState'[c].outcome.by = "direct"

\* C19: for a file that passes validation, whenever the worker path of a
\* processFile call fails, the call runs direct processing and has the outcome
\* of direct processing; processFile never rejects with the failure of the worker
WorkerFallback == []FallsBack /\ [][LeavesWorkerPath]_vars

\* two concurrent calls lost the worker path, one to the initialization
\* timeout and one to an error reply, and both settled with the outcome of
\* direct processing, one fulfilled and one rejected
WorkerFallbackWitness ==
  /\ \E c \in CallIds : callState[c].failure = "timeout" /\ Settled(c)
  /\ \E c \in CallIds : callState[c].failure = "errorReply" /\ Settled(c)
  /\ \E c, d \in CallIds : callState[c].outcome = Outcome("direct", TRUE)
                           /\ callState[d].outcome = Outcome("direct", FALSE)

\* the request of the call c is pending in processingQueue
Pending(c) ==
  /\ callState[c].pc = "worker"
  /\ callState[c].requestId \in processingQueue

\* every request of processingQueue is the request of a call that waits for it
QueuedArePending ==
  \A r \in processingQueue : \E c \in CallIds : callState[c].requestId = r /\ Pending(c)

\* a step of worker.onerror rejects every call whose request is pending in the
\* queue, which starts its direct processing, empties the queue and sets
\* this.worker to null
CrashHandled ==
  \A w \in WorkerIds :
    WorkerCrash(w) =>
      /\ processingQueue' = {}
      /\ worker' = 0
      /\ \A c \in CallIds :
           Pending(c) => callState'[c].pc = "direct" /\ callState'[c].failure = "crash"

\* this.worker leaves null only for a Worker object that the step creates
FreshWorker ==
  (worker = 0 /\ worker' # 0) =>
    /\ Len(workerObjects') = Len(workerObjects) + 1
    /\ worker' = Len(workerObjects')
    /\ \E c \in CallIds : workerObjects'[worker'] = NewWorker(c)

\* C21: handleWorkerError rejects every request that is pending in
\* processingQueue, leaves the queue empty and sets worker to null, and the
\* next initializeWorker creates a fresh worker
WorkerCrashHandling == []QueuedArePending /\ [][CrashHandled /\ FreshWorker]_vars

\* a worker crashed while a request was pending, the call of the request went
\* to direct processing, and a later call created the second worker
WorkerCrashHandlingWitness ==
  /\ \E c \in CallIds : callState[c].failure = "crash"
  /\ Len(workerObjects) = 2
  /\ worker = 2
  /\ workerObjects[2].test

\* const requestId = ++this.requestId: every id up to the counter is the id
\* of one call, and a call that has no id has registered no request
DistinctRequestIds ==
  /\ \A r \in 1..requestId : Cardinality(CallsOf(Processor, r)) = 1
  /\ \A c \in CallIds : callState[c].requestId \in 0..requestId
  /\ \A c \in CallIds : callState[c].pc \in {"new", "init"} => callState[c].requestId = 0
  /\ processingQueue \subseteq 1..requestId

\* the step leaves alone every request that waits for its reply, but the
\* request with the id r
OthersKeepWaiting(r) ==
  \A c \in CallIds :
    (callState[c].pc = "worker" /\ callState[c].requestId # r) => callState'[c] = callState[c]

\* the step settles no request
SettlesNothing ==
  \A c \in CallIds : callState[c].pc = "worker" => callState'[c] = callState[c]

\* a reply with the request id r: 'progress' changes neither the queue nor a
\* request; 'success' and 'error' for an id of the queue resolve or reject the
\* call of that id, delete that id and nothing else from the queue, and leave
\* the other requests waiting; for an id that is not in the queue they change
\* neither the queue nor a request
RepliesRouted ==
  \A w \in WorkerIds : \A r \in 1..requestId :
    /\ WorkerProgress(w, r) =>
         processingQueue' = processingQueue /\ SettlesNothing
    /\ (WorkerSuccess(w, r) /\ r \in processingQueue) =>
         /\ processingQueue' = processingQueue \ {r}
         /\ OthersKeepWaiting(r)
         /\ \A c \in CallsOf(Processor, r) :
              /\ callState'[c].pc = "resolved"
              /\ callState'[c].outcome = Outcome("worker", TRUE)
    /\ (WorkerFailure(w, r) /\ r \in processingQueue) =>
         /\ processingQueue' = processingQueue \ {r}
         /\ OthersKeepWaiting(r)
         /\ \A c \in CallsOf(Processor, r) :
              /\ callState'[c].pc = "direct"
              /\ callState'[c].failure = "errorReply"
    /\ ((WorkerSuccess(w, r) \/ WorkerFailure(w, r)) /\ r \notin processingQueue) =>
         processingQueue' = processingQueue /\ SettlesNothing

\* C22: request ids are distinct; a 'success' or 'error' reply with the id r
\* settles the pending request r and no other, and removes only r from
\* processingQueue; a 'progress' reply leaves the queue unchanged; a reply whose
\* id is not in the queue settles nothing and leaves the queue unchanged
ReplyRouting ==
  [](DistinctRequestIds /\ QueuedArePending) /\ [][RepliesRouted]_vars

\* two requests went to one worker: the first was resolved by its 'success'
\* reply, the second was rejected by a crash and answered afterwards, by a
\* reply whose id was not in the queue any more
ReplyRoutingWitness ==
  \E c, d \in CallIds : \E w \in WorkerIds :
    /\ callState[c].outcome = Outcome("worker", TRUE)
    /\ callState[d].failure = "crash"
    /\ workerObjects[w].live
    /\ {m.requestId : m \in workerObjects[w].received}
         = {callState[c].requestId, callState[d].requestId}
    /\ workerObjects[w].posted = {}

\* C23: every request that processFileWithWorker registers in processingQueue
\* is eventually resolved or rejected, under any interleaving of worker
\* replies, worker errors and cleanup() calls, when a live worker answers every
\* message it received
RequestsSettled ==
  \A c \in 1..MaxCalls :
    (callState[c].pc = "worker") ~> (callState[c].pc # "worker")

\* C24: a PROCESS_PDF or PROCESS_DOCX message is posted to a worker only after
\* that worker has answered TEST_WORKER with 'worker_ready', also when a second
\* processFile call finds this.worker set while the first call still waits for
\* the answer or the timeout
ProcessAfterReady ==
  \A w \in WorkerIds : \A m \in workerObjects[w].received : m.ready

\* the processFile call c is in flight
InFlight(c) == callState[c].pc \in {"init", "worker", "direct"}

\* the number of the batch of the file c
BatchOf(c) == (c - 1) \div MaxConcurrent

\* C20: during processMultipleFiles at most maxConcurrent (by default 2)
\* processFile calls are in flight; a file is started only when every file of
\* the batches before its own has completed, and after a failure in a batch
\* no file of a later batch is started
RateLimiting ==
  /\ Cardinality({c \in CallIds : InFlight(c)}) <= MaxConcurrent
  /\ \A c, d \in CallIds :
       BatchOf(d) < BatchOf(c) =>
         /\ callState[c].pc # "new" => callState[d].pc = "resolved"
         /\ callState[d].pc = "rejected" => callState[c].pc = "new"

\* with the default limit the first two of three files are in flight and the
\* third waits
RateLimitingWitness ==
  /\ maxConcurrent = 0
  /\ Len(files) = 3
  /\ InFlight(1)
  /\ InFlight(2)
  /\ callState[3].pc = "new"

-----------------------------------------------------------------------------
(* MemoryManager: the history of measurements *)

\* the number of measurements one run takes
MaxMeasurements == 53

\* if (this.memoryUsageHistory.length > 50): slice(-50)
HistoryLimit == 50

\* cleanup: this.memoryUsageHistory.slice(-10)
CleanupKeeps == 10

\* the names given to startPerformanceTracking
OperationNames == {"parse", "chunk"}

\* the fields of the manager that the measurements change, as one value
Manager == [history |-> memoryUsageHistory, measured |-> measurements]

\* Array.prototype.slice(-k)
SliceLast(s, k) ==
  IF Len(s) <= k THEN s ELSE SubSeq(s, Len(s) - k + 1, Len(s))

\* getMemoryUsage with slice(0, 50) for slice(-50)
getMemoryUsageKeepsOldest(m) ==
  IF ~memorySupported
  THEN m
  ELSE LET pushed == Append(m.history, m.measured + 1)
       IN  [ history |-> IF Len(pushed) > HistoryLimit
                         THEN SubSeq(pushed, 1, HistoryLimit)
                         ELSE pushed,
             measured |-> m.measured + 1 ]

\* getMemoryUsage: a measurement is its number in the order taken
getMemoryUsage(m) ==
  IF ~memorySupported
  THEN m
  ELSE LET pushed == Append(m.history, m.measured + 1)
       IN  [ history |-> IF Len(pushed) > HistoryLimit
                         THEN SliceLast(pushed, HistoryLimit)
                         ELSE pushed,
             measured |-> m.measured + 1 ]

\* isMemoryUsageHigh: what it returns changes nothing of the manager
isMemoryUsageHigh(m) == getMemoryUsage(m)

\* the callback of setInterval: suggestGarbageCollection keeps no state
MonitoringTick(m) == isMemoryUsageHigh(getMemoryUsage(m))

\* the manager has the fields m, and the run stays within its measurements
Measured(m) ==
  /\ m.measured <= MaxMeasurements
  /\ memoryUsageHistory' = m.history
  /\ measurements' = m.measured
  /\ UNCHANGED memorySupported
  /\ UNCHANGED outsideManager

CallGetMemoryUsage ==
  /\ Measured(getMemoryUsage(Manager))
  /\ UNCHANGED <<performanceMetrics, monitoringInterval>>

CallIsMemoryUsageHigh ==
  /\ Measured(isMemoryUsageHigh(Manager))
  /\ UNCHANGED <<performanceMetrics, monitoringInterval>>

\* startMemoryMonitoring: an interval that is set is cleared first
StartMemoryMonitoring ==
  /\ monitoringInterval' = TRUE
  /\ UNCHANGED <<memoryUsageHistory, measurements, performanceMetrics, memorySupported>>
  /\ UNCHANGED outsideManager

StopMemoryMonitoring ==
  /\ monitoringInterval' = FALSE
  /\ UNCHANGED <<memoryUsageHistory, measurements, performanceMetrics, memorySupported>>
  /\ UNCHANGED outsideManager

\* the interval fires
Tick ==
  /\ monitoringInterval
  /\ Measured(MonitoringTick(Manager))
  /\ UNCHANGED <<performanceMetrics, monitoringInterval>>

StartPerformanceTracking(name) ==
  /\ Measured(getMemoryUsage(Manager))
  /\ performanceMetrics' = performanceMetrics \cup {name}
  /\ UNCHANGED monitoringInterval

\* finishPerformanceTracking: returns null for a name that is not tracked
FinishPerformanceTracking(name) ==
  /\ IF name \in performanceMetrics
     THEN Measured(getMemoryUsage(Manager))
     ELSE Measured(Manager)
  /\ performanceMetrics' = performanceMetrics \ {name}
  /\ UNCHANGED monitoringInterval

\* cleanup(objectsToClean): the objects are the caller's
ManagerCleanup ==
  /\ Measured([Manager EXCEPT !.history = SliceLast(@, CleanupKeeps)])
  /\ UNCHANGED <<performanceMetrics, monitoringInterval>>

Destroy ==
  /\ Measured([Manager EXCEPT !.history = << >>])
  /\ performanceMetrics' = {}
  /\ monitoringInterval' = FALSE

ManagerInit ==
  /\ memoryUsageHistory = << >>
  /\ performanceMetrics = {}
  /\ monitoringInterval = FALSE
  /\ memorySupported \in BOOLEAN
  /\ measurements = 0
  /\ ChunkerIdle
  /\ FormatterIdle
  /\ ReentrantIdle
  /\ ProcessorIdle

ManagerNext ==
  \/ CallGetMemoryUsage
  \/ CallIsMemoryUsageHigh
  \/ StartMemoryMonitoring
  \/ StopMemoryMonitoring
  \/ Tick
  \/ \E name \in OperationNames :
       StartPerformanceTracking(name) \/ FinishPerformanceTracking(name)
  \/ ManagerCleanup
  \/ Destroy

ManagerSpec == ManagerInit /\ [][ManagerNext]_vars

\* C25: after any sequence of operations of the MemoryManager,
\* memoryUsageHistory holds at most 50 entries, and they are the most recent
\* measurements in the order taken
HistoryBounded ==
  /\ Len(memoryUsageHistory) <= HistoryLimit
  /\ \A i \in 1..Len(memoryUsageHistory) :
       memoryUsageHistory[i] = measurements - Len(memoryUsageHistory) + i

\* more than 50 measurements were taken in a row, and the history holds the
\* last 50 of them
HistoryBoundedWitness ==
  /\ Len(memoryUsageHistory) = HistoryLimit
  /\ memoryUsageHistory[1] > 2

-----------------------------------------------------------------------------
(* TextFormatter.smartTextChunking *)

\* longest text of the exhaustive family of smartTextChunking
MaxSmartLen == 5

\* longest piece on each side of a conjunction
MaxPiece == 2

\* largest maxLength tried
MaxMaxLength == 4

\* the characters of the texts: two letters, the space, a sentence end, the comma
SmartChars == {"o", " ", ".", ","}

\* ", or ": a comma, white space, a conjunction and white space
CommaOr == <<",", " ", "o", "r", " ">>

SmartPieces == UNION {[1..n -> SmartChars] : n \in 0..MaxPiece}

SmartTexts ==
  UNION {[1..n -> SmartChars] : n \in 0..MaxSmartLen}
  \cup {a \o CommaOr \o b : a \in SmartPieces, b \in SmartPieces}

SmartInputs ==
  {[kind |-> "chunking", text |-> t, maxLength |-> n] : t \in SmartTexts, n \in 1..MaxMaxLength}

\* /,\s+(?:and|or|but|however|therefore|furthermore|moreover|additionally|specifically|particularly)\s+/i
logicalBreak ==
  Cat(<<Lit(<<",">>), Plus(Cls(Space)), Alt(<<
    Lit(<<"a", "n", "d">>),
    Lit(<<"o", "r">>),
    Lit(<<"b", "u", "t">>),
    Lit(<<"h", "o", "w", "e", "v", "e", "r">>),
    Lit(<<"t", "h", "e", "r", "e", "f", "o", "r", "e">>),
    Lit(<<"f", "u", "r", "t", "h", "e", "r", "m", "o", "r", "e">>),
    Lit(<<"m", "o", "r", "e", "o", "v", "e", "r">>),
    Lit(<<"a", "d", "d", "i", "t", "i", "o", "n", "a", "l", "l", "y">>),
    Lit(<<"s", "p", "e", "c", "i", "f", "i", "c", "a", "l", "l", "y">>),
    Lit(<<"p", "a", "r", "t", "i", "c", "u", "l", "a", "r", "l", "y">>)>>), Plus(Cls(Space))>>)

\* /,\s+/
commaBreak == Cat(<<Lit(<<",">>), Plus(Cls(Space))>>)

\* /\s+/
wordBreak == Plus(Cls(Space))

\* String.prototype.split with a pattern that matches no empty string
Split(re, t, ci) ==
  Let(MatchesFrom(re, t, 0, ci), LAMBDA ms :
    [k \in 1..(Len(ms) + 1) |->
       Substring(t, IF k = 1 THEN 0 ELSE ms[k - 1].to,
                    IF k > Len(ms) THEN Len(t) ELSE ms[k].from)])

\* const chunks = []; let currentChunk = ''
NoChunks == [chunks |-> << >>, currentChunk |-> << >>]

\* parts.forEach((part, idx) => ...), from the index idx on
RECURSIVE BreakAtParts(_, _, _)
BreakAtParts(st, parts, idx) ==
  IF idx >= Len(parts)
  THEN st
  ELSE Let(Trim(parts[idx + 1]), LAMBDA part :
         BreakAtParts(
           IF part = << >>
           THEN st
           ELSE IF idx = 0
           THEN [st EXCEPT !.currentChunk = part]
           ELSE [chunks |-> Append(st.chunks, Trim(st.currentChunk)), currentChunk |-> part],
           parts, idx + 1))

\* words.forEach(word => ...), and currentChunk = tempChunk after it
RECURSIVE BreakAtWords(_, _, _, _, _)
BreakAtWords(st, tempChunk, words, k, maxLength) ==
  IF k > Len(words)
  THEN [st EXCEPT !.currentChunk = tempChunk]
  ELSE IF Len(tempChunk \o <<" ">> \o words[k]) <= maxLength
  THEN BreakAtWords(st, tempChunk \o (IF tempChunk # << >> THEN <<" ">> ELSE << >>) \o words[k],
                    words, k + 1, maxLength)
  ELSE BreakAtWords(IF tempChunk # << >>
                    THEN [st EXCEPT !.chunks = Append(@, Trim(tempChunk))]
                    ELSE st,
                    words[k], words, k + 1, maxLength)

\* a single sentence that is too long is broken at conjunctions, else at
\* commas, else at words
BreakSentence(st, sentence, maxLength) ==
  Let(Split(logicalBreak, sentence, TRUE), LAMBDA parts :
    IF Len(parts) > 1
    THEN BreakAtParts(st, parts, 0)
    ELSE Let(Split(commaBreak, sentence, FALSE), LAMBDA commaParts :
           IF Len(commaParts) > 1
           THEN BreakAtParts(st, commaParts, 0)
           ELSE BreakAtWords(st, << >>, Split(wordBreak, sentence, FALSE), 1, maxLength)))

\* the body of sentences.forEach
SentenceStep(st, sentence, maxLength) ==
  LET potentialChunk ==
        st.currentChunk \o (IF st.currentChunk # << >> THEN <<" ">> ELSE << >>) \o sentence
  IN  IF Len(potentialChunk) <= maxLength
      THEN [st EXCEPT !.currentChunk = potentialChunk]
      ELSE IF st.currentChunk # << >>
      THEN [chunks |-> Append(st.chunks, Trim(st.currentChunk)), currentChunk |-> sentence]
      ELSE BreakSentence(st, sentence, maxLength)

RECURSIVE EachSentence(_, _, _, _)
EachSentence(st, sentences, k, maxLength) ==
  IF k > Len(sentences)
  THEN st
  ELSE Let(SentenceStep(st, sentences[k], maxLength), LAMBDA next :
         EachSentence(next, sentences, k + 1, maxLength))

smartTextChunking(t, maxLength) ==
  IF Len(t) = 0 \/ Len(t) <= maxLength
  THEN <<t>>
  ELSE Let(EachSentence(NoChunks, SplitFrom(t, 0, 0), 1, maxLength), LAMBDA st :
         FilterNonEmpty(IF st.currentChunk # << >>
                        THEN Append(st.chunks, Trim(st.currentChunk))
                        ELSE st.chunks))

SmartInit ==
  /\ input \in SmartInputs
  /\ result = NoResult
  /\ bulletizedLines = << >>
  /\ lineTable = << >>
  /\ ChunkerIdle
  /\ ReentrantIdle
  /\ ProcessorIdle
  /\ ManagerIdle

\* the call runs to its return
CallSmartTextChunking ==
  /\ input # NoInput
  /\ result = NoResult
  /\ result' = [type |-> "chunks", chunks |-> smartTextChunking(input.text, input.maxLength)]
  /\ UNCHANGED <<input, bulletizedLines, lineTable>>
  /\ UNCHANGED outsideFormatter

SmartNext == CallSmartTextChunking

SmartSpec == SmartInit /\ [][SmartNext]_vars

\* C26: smartTextChunking(text, maxLength) returns only chunks whose length is
\* at most maxLength, for every text longer than maxLength, whichever
\* splitting branch is taken
ChunksWithinMaxLength ==
  (result.type = "chunks" /\ Len(input.text) > input.maxLength) =>
    \A k \in 1..Len(result.chunks) : Len(result.chunks[k]) <= input.maxLength

====
